---- MODULE Spec2Model ----
(***************************************************************************)
(* Model of the SageMaker deployment orchestrator (deploy-model.py) and    *)
(* of its endpoint monitor (modules/monitor_endpoint.py): parameter        *)
(* validation, the non-blocking deploy request, the status poller and the  *)
(* log tailer running as two threads, the rollback (delete_endpoint) and   *)
(* the mapping of the outcome to the process exit code.                    *)
(*                                                                         *)
(* Time is a global integer clock (now).  time.sleep(n) ends exactly n     *)
(* units after it began; a describe_endpoint call takes between 0 and      *)
(* MaxCallDur units.  The sleeps of the log tailer are not timed.          *)
(***************************************************************************)
EXTENDS Integers, Sequences, FiniteSets, TLC

\* ------------------------------------------------------------------ bounds
MaxWait == 3          \* largest max_wait_seconds tried (clock units)
MaxInterval == 2      \* largest check_interval tried (clock units)
MaxCallDur == 1       \* longest a describe_endpoint call may take
MaxLogQueries == 1    \* filter_log_events calls modelled per session

None == "None"        \* Python None where a status string is expected

\* --------------------------------------------------- strings as char lists
NoValue == [isNone |-> TRUE, s |-> <<>>]
Str(chars) == [isNone |-> FALSE, s |-> chars]

IsSpace(c) == c = " "

RECURSIVE LStrip(_)
LStrip(s) == IF s # <<>> /\ IsSpace(Head(s)) THEN LStrip(Tail(s)) ELSE s

RECURSIVE RStrip(_)
RStrip(s) ==
    IF s # <<>> /\ IsSpace(s[Len(s)]) THEN RStrip(SubSeq(s, 1, Len(s) - 1)) ELSE s

\* str.strip()
Strip(s) == RStrip(LStrip(s))

\* str.startswith(prefix)
StartsWith(s, prefix) ==
    Len(s) >= Len(prefix) /\ SubSeq(s, 1, Len(prefix)) = prefix

\* ----------------------------------------------------------- validation
required_env == <<"AWS_REGION", "SAGEMAKER_EXECUTION_ROLE_ARN">>

\* values an environment variable may hold: unset, "", " ", "x"
EnvValues == {NoValue, Str(<<>>), Str(<<" ">>), Str(<<"x">>)}

\* the test of validate_env_vars on one value: `not value or value.strip() == ""`
EnvVarMissing_noStrip(v) == v.isNone \/ v.s = <<>>
EnvVarMissing(v) == v.isNone \/ v.s = <<>> \/ Strip(v.s) = <<>>

\* the `errors` list of validate_env_vars: the names that failed, in order
EnvErrors(e) ==
    SelectSeq(required_env, LAMBDA n : EnvVarMissing(e[n]))

ML_PREFIX == <<"m", "l", ".">>
T_C5_2XL == Str(ML_PREFIX \o <<"c", "5">>)      \* a recommended type
T_BARE == Str(<<"c", "5">>)                     \* lacks the ml. prefix
InstanceTypes == {Str(<<>>), T_BARE, T_C5_2XL}
recommended == {T_C5_2XL}

\* validate_instance_type: (is_valid, warning_message present)
validate_instance_type(t) ==
    IF t.isNone \/ t.s = <<>> THEN [valid |-> FALSE, warning |-> TRUE]
    ELSE IF ~StartsWith(t.s, ML_PREFIX) THEN [valid |-> FALSE, warning |-> TRUE]
    ELSE IF t \notin recommended THEN [valid |-> TRUE, warning |-> TRUE]
    ELSE [valid |-> TRUE, warning |-> FALSE]

\* ------------------------------------------------- describe_endpoint replies
\* text of a ClientError, as the list of its parts
MSG_NOT_FOUND == <<"ValidationException", "Could not find endpoint", "qc-ep">>
MSG_THROTTLED == <<"ThrottlingException", "Rate exceeded">>

\* `needle in str(e)`
MsgContains(msg, needle) == \E i \in 1..Len(msg) : msg[i] = needle

TransientStatuses == {"Creating", "Updating"}
EndpointStatuses == {"Creating", "RollingBack", "InService", "Failed"}

\* what one describe_endpoint call can produce
NoReason == ""                       \* the response has no 'FailureReason' key
FAILURE_REASON == "no capacity"      \* a FailureReason the service supplies

\* what one describe_endpoint call can produce; the service supplies a
\* FailureReason, if at all, with the status Failed
DescribeReplies ==
    [kind : {"ok"}, status : EndpointStatuses \ {"Failed"}, msg : {<<>>},
     reason : {NoReason}]
    \cup [kind : {"ok"}, status : {"Failed"}, msg : {<<>>},
          reason : {NoReason, FAILURE_REASON}]
    \cup [kind : {"ClientError"}, status : {None},
          msg : {MSG_NOT_FOUND, MSG_THROTTLED}, reason : {NoReason}]
    \cup [kind : {"Exception"}, status : {None}, msg : {<<>>}, reason : {NoReason}]

IsNotFound(r) == r.kind = "ClientError" /\ MsgContains(r.msg, "Could not find endpoint")

\* The body of the while loop of monitor_endpoint_status for one reply:
\* ret is the value returned (None: keep looping after time.sleep(check_interval)).
PollOutcome_retryAll(r) ==
    IF r.kind = "ok" /\ r.status = "InService" THEN "InService"
    ELSE IF r.kind = "ok" /\ r.status = "Failed" THEN "Failed"
    ELSE None
PollOutcome_failedTransient(r) ==
    IF r.kind = "ok"
    THEN IF r.status = "InService" THEN "InService" ELSE None
    ELSE IF r.kind = "ClientError"
    THEN IF MsgContains(r.msg, "Could not find endpoint") THEN None ELSE "Error"
    ELSE "Error"
PollOutcome_notFoundFatal(r) ==
    IF r.kind = "ok"
    THEN IF r.status = "InService" THEN "InService"
         ELSE IF r.status = "Failed" THEN "Failed"
         ELSE None
    ELSE "Error"
PollOutcome_unexpectedFatal(r) ==
    IF r.kind = "ok"
    THEN IF r.status = "InService" THEN "InService"
         ELSE IF r.status = "Failed" THEN "Failed"
         ELSE IF r.status \in TransientStatuses THEN None
         ELSE "Error"
    ELSE IF r.kind = "ClientError"
    THEN IF MsgContains(r.msg, "Could not find endpoint") THEN None ELSE "Error"
    ELSE "Error"
PollOutcome(r) ==
    IF r.kind = "ok"
    THEN IF r.status = "InService" THEN "InService"
         ELSE IF r.status = "Failed" THEN "Failed"
         ELSE IF r.status \in TransientStatuses THEN None
         ELSE None                      \* "Unexpected status": sleep and retry
    ELSE IF r.kind = "ClientError"
    THEN IF MsgContains(r.msg, "Could not find endpoint") THEN None ELSE "Error"
    ELSE "Error"

\* What the loop body prints about the status for one reply, and the
\* last_status it leaves: the status line and, if the response has the key,
\* the failure reason when status != last_status; the failure reason again in
\* the Failed branch.  The handlers of exceptions touch neither.
StatusBlock_everyPoll(r, last) ==
    IF r.kind # "ok" THEN [last |-> last, lines |-> <<>>]
    ELSE [last |-> r.status,
          lines |-> <<[line |-> "status", text |-> r.status]>>
                    \o (IF r.reason # NoReason
                        THEN <<[line |-> "reason", text |-> r.reason]>> ELSE <<>>)
                    \o (IF r.status = "Failed" /\ r.reason # NoReason
                        THEN <<[line |-> "failed_reason", text |-> r.reason]>>
                        ELSE <<>>)]
StatusBlock(r, last) ==
    IF r.kind # "ok" THEN [last |-> last, lines |-> <<>>]
    ELSE [last |-> r.status,
          lines |-> (IF r.status # last
                     THEN <<[line |-> "status", text |-> r.status]>>
                          \o (IF r.reason # NoReason
                              THEN <<[line |-> "reason", text |-> r.reason]>>
                              ELSE <<>>)
                     ELSE <<>>)
                    \o (IF r.status = "Failed" /\ r.reason # NoReason
                        THEN <<[line |-> "failed_reason", text |-> r.reason]>>
                        ELSE <<>>)]

\* `(time.time() - start_time) < max_wait_seconds`
WithinBudget_offByInterval(t, start, W, I) == (t - start) + I < W
WithinBudget_inclusive(t, start, W, I) == (t - start) <= W
WithinBudget(t, start, W, I) == (t - start) < W

\* ------------------------------------------------------------ rollback
endpoint_name == "qc-ep"
DeleteOutcomes == {"ok", "ClientError", "Exception"}

\* one collaborator call of delete_endpoint: what was called and whether it
\* came back without an exception
Call(op, name, out) == [op |-> op, name |-> name, ok |-> (out = "ok")]

\* delete_endpoint(sm_client, endpoint_name, delete_config): the value it
\* returns, the collaborator calls it issues, in order, and whether an
\* exception leaves it.  A ClientError of delete_endpoint_config is caught by
\* the inner handler (a warning, then `return True`); everything else is
\* caught by the outer `except Exception` (`return False`).
delete_endpoint_catchesClientErrorOnly(name, delete_config, epOut, cfgOut) ==
    IF epOut # "ok"
    THEN [ret |-> FALSE, calls |-> <<Call("delete_endpoint", name, epOut)>>,
          raised |-> (epOut = "Exception")]
    ELSE IF ~delete_config
    THEN [ret |-> TRUE, calls |-> <<Call("delete_endpoint", name, epOut)>>,
          raised |-> FALSE]
    ELSE [ret |-> (cfgOut # "Exception"),
          calls |-> <<Call("delete_endpoint", name, epOut),
                      Call("delete_endpoint_config", name, cfgOut)>>,
          raised |-> (cfgOut = "Exception")]
delete_endpoint_configRegardless(name, delete_config, epOut, cfgOut) ==
    IF ~delete_config
    THEN [ret |-> (epOut = "ok"), calls |-> <<Call("delete_endpoint", name, epOut)>>,
          raised |-> FALSE]
    ELSE [ret |-> (epOut = "ok" /\ cfgOut # "Exception"),
          calls |-> <<Call("delete_endpoint", name, epOut),
                      Call("delete_endpoint_config", name, cfgOut)>>,
          raised |-> FALSE]
delete_endpoint(name, delete_config, epOut, cfgOut) ==
    IF epOut # "ok"
    THEN [ret |-> FALSE, calls |-> <<Call("delete_endpoint", name, epOut)>>,
          raised |-> FALSE]
    ELSE IF ~delete_config
    THEN [ret |-> TRUE, calls |-> <<Call("delete_endpoint", name, epOut)>>,
          raised |-> FALSE]
    ELSE [ret |-> (cfgOut # "Exception"),
          calls |-> <<Call("delete_endpoint", name, epOut),
                      Call("delete_endpoint_config", name, cfgOut)>>,
          raised |-> FALSE]

\* what handle_deployment_result prints after the status banner
SUCCESS_REPORT == {"DEPLOYMENT SUCCESSFUL"}
FAILURE_REPORT == {"DEPLOYMENT FAILED", "Common Causes", "Troubleshooting Steps"}
ROLLED_BACK_REPORT == {"Rollback completed", "Endpoint deleted", "Configuration deleted"}
ROLLBACK_FAILED_REPORT == {"Rollback failed", "Manual cleanup required"}
NO_ROLLBACK_REPORT == {"Auto-rollback disabled", "Manual cleanup required"}

\* handle_deployment_result(status, endpoint_name, rollback_on_failure, client):
\* code is the exit code of the process, rollback tells whether delete_endpoint
\* was invoked, calls are the collaborator calls, branch names the path taken
\* and report holds what was printed after the banner.  An exception leaving
\* delete_endpoint would leave the handler and end the process with code 1.
handle_deployment_result_ignoreFlag(status, name, rollback, epOut, cfgOut) ==
    IF status = "InService"
    THEN [code |-> 0, rollback |-> FALSE, calls |-> <<>>, branch |-> "Succeeded",
          report |-> SUCCESS_REPORT]
    ELSE IF status \in {"Failed", "Timeout"}
    THEN LET d == delete_endpoint(name, TRUE, epOut, cfgOut)
         IN [code |-> 1, rollback |-> TRUE, calls |-> d.calls,
             branch |-> IF d.raised THEN "Crashed"
                        ELSE IF d.ret THEN "RolledBack" ELSE "RollbackFailed",
             report |-> FAILURE_REPORT \cup
                        (IF d.raised THEN {}
                         ELSE IF d.ret THEN ROLLED_BACK_REPORT
                         ELSE ROLLBACK_FAILED_REPORT)]
    ELSE [code |-> 1, rollback |-> FALSE, calls |-> <<>>, branch |-> "Unhandled",
          report |-> {}]
handle_deployment_result_zeroAfterRollback(status, name, rollback, epOut, cfgOut) ==
    IF status = "InService"
    THEN [code |-> 0, rollback |-> FALSE, calls |-> <<>>, branch |-> "Succeeded",
          report |-> SUCCESS_REPORT]
    ELSE IF status \in {"Failed", "Timeout"}
    THEN IF rollback
         THEN LET d == delete_endpoint(name, TRUE, epOut, cfgOut)
              IN [code |-> IF d.ret /\ ~d.raised THEN 0 ELSE 1,
                  rollback |-> TRUE, calls |-> d.calls,
                  branch |-> IF d.raised THEN "Crashed"
                             ELSE IF d.ret THEN "RolledBack" ELSE "RollbackFailed",
                  report |-> FAILURE_REPORT \cup
                             (IF d.raised THEN {}
                              ELSE IF d.ret THEN ROLLED_BACK_REPORT
                              ELSE ROLLBACK_FAILED_REPORT)]
         ELSE [code |-> 1, rollback |-> FALSE, calls |-> <<>>,
               branch |-> "FailedNoRollback",
               report |-> FAILURE_REPORT \cup NO_ROLLBACK_REPORT]
    ELSE [code |-> 1, rollback |-> FALSE, calls |-> <<>>, branch |-> "Unhandled",
          report |-> {}]
handle_deployment_result_keepsConfig(status, name, rollback, epOut, cfgOut) ==
    IF status = "InService"
    THEN [code |-> 0, rollback |-> FALSE, calls |-> <<>>, branch |-> "Succeeded",
          report |-> SUCCESS_REPORT]
    ELSE IF status \in {"Failed", "Timeout"}
    THEN IF rollback
         THEN LET d == delete_endpoint(name, FALSE, epOut, cfgOut)
              IN [code |-> 1, rollback |-> TRUE, calls |-> d.calls,
                  branch |-> IF d.raised THEN "Crashed"
                             ELSE IF d.ret THEN "RolledBack" ELSE "RollbackFailed",
                  report |-> FAILURE_REPORT \cup
                             (IF d.raised THEN {}
                              ELSE IF d.ret THEN ROLLED_BACK_REPORT
                              ELSE ROLLBACK_FAILED_REPORT)]
         ELSE [code |-> 1, rollback |-> FALSE, calls |-> <<>>,
               branch |-> "FailedNoRollback",
               report |-> FAILURE_REPORT \cup NO_ROLLBACK_REPORT]
    ELSE [code |-> 1, rollback |-> FALSE, calls |-> <<>>, branch |-> "Unhandled",
          report |-> {}]
handle_deployment_result(status, name, rollback, epOut, cfgOut) ==
    IF status = "InService"
    THEN [code |-> 0, rollback |-> FALSE, calls |-> <<>>, branch |-> "Succeeded",
          report |-> SUCCESS_REPORT]
    ELSE IF status \in {"Failed", "Timeout"}
    THEN IF rollback
         THEN LET d == delete_endpoint(name, TRUE, epOut, cfgOut)
              IN [code |-> 1, rollback |-> TRUE, calls |-> d.calls,
                  branch |-> IF d.raised THEN "Crashed"
                             ELSE IF d.ret THEN "RolledBack" ELSE "RollbackFailed",
                  report |-> FAILURE_REPORT \cup
                             (IF d.raised THEN {}
                              ELSE IF d.ret THEN ROLLED_BACK_REPORT
                              ELSE ROLLBACK_FAILED_REPORT)]
         ELSE [code |-> 1, rollback |-> FALSE, calls |-> <<>>,
               branch |-> "FailedNoRollback",
               report |-> FAILURE_REPORT \cup NO_ROLLBACK_REPORT]
    ELSE [code |-> 1, rollback |-> FALSE, calls |-> <<>>, branch |-> "Unhandled",
          report |-> {}]

\* dict.get(key, default) on the dictionary status_result
DictGet(d, key, default) == IF key \in DOMAIN d THEN d[key] ELSE default

\* =================================================================== state
VARIABLES
    env,                 \* os.environ restricted to required_env
    instance_type,       \* args.instance_type
    no_monitor,          \* args.no_monitor
    rollback_on_failure, \* args.rollback_on_failure (False with --skip-rollback)
    max_wait,            \* max_wait_seconds given to the poller
    check_interval,      \* check_interval given to the poller
    pc,                  \* position of the main thread
    exit_code,           \* process exit status, -1 while running
    outcome,             \* which end of the run was taken ("" while running)
    deployCalls,         \* number of model.deploy calls issued
    now,                 \* the clock, time.time()
    ppc,                 \* position of the status thread
    start_time,          \* start_time of monitor_endpoint_status
    callStart,           \* when the describe_endpoint call in flight began
    wakeAt,              \* when the poller's time.sleep ends
    last_status,         \* last_status of monitor_endpoint_status
    lastReply,           \* the latest describe_endpoint reply
    statusOut,           \* what the loop body printed about the status of that reply
    lastCallDur,         \* how long the latest describe_endpoint call took
    pollerRet,           \* value returned by monitor_endpoint_status, None before
    retElapsed,          \* time.time() - start_time when it returned
    nPolls,              \* describe_endpoint calls issued
    priorNotFound,       \* every reply before the latest was "Could not find endpoint"
    status_result,       \* the dictionary shared with the status thread
    stop_event,          \* threading.Event shared by the two threads
    stopSets,            \* calls of stop_event.set() so far
    monResult,           \* value returned by monitor_and_tail
    monReturns,          \* how many times monitor_and_tail returned
    tpc,                 \* position of the logs thread
    last_timestamp,      \* cursor of tail_logs
    seen_events,         \* seen_events of tail_logs
    printed,             \* log events printed, in order
    nLogQueries,         \* filter_log_events calls issued (saturates)
    returned,            \* per identity key: times filter_log_events returned it (saturates)
    firstReturned,       \* the keys returned so far, in the order of their first return
    retentionCalls,      \* put_retention_policy calls issued
    rollbackInvoked,     \* delete_endpoint was called by the orchestrator
    deleteCalls,         \* collaborator delete calls issued, in order
    report,              \* what handle_deployment_result printed after the banner
    delArgs,             \* arguments and collaborator outcomes of a direct call of delete_endpoint
    delResult,           \* what that call returned and issued, NoResult before
    wfe,                 \* a call of endpoint_operations.wait_for_endpoint: arguments, position, locals, outcome
    cou                  \* a call of sagemaker_endpoint.create_or_update_endpoint: position, calls issued, outcome

inputVars == <<env, instance_type, no_monitor, rollback_on_failure,
               max_wait, check_interval>>
mainVars == <<pc, exit_code, outcome, deployCalls, monResult, monReturns,
              retentionCalls, rollbackInvoked, deleteCalls, report>>
pollerVars == <<ppc, start_time, callStart, wakeAt, last_status, lastReply,
                statusOut,
                lastCallDur, pollerRet, retElapsed, nPolls, priorNotFound>>
sharedVars == <<status_result, stop_event, stopSets>>
tailerVars == <<tpc, last_timestamp, seen_events, printed, nLogQueries,
                returned, firstReturned>>
directVars == <<delArgs, delResult, wfe, cou>>
vars == <<inputVars, mainVars, pollerVars, sharedVars, tailerVars, directVars, now>>

\* no direct call of delete_endpoint is made
NoArgs == [name |-> "", delete_config |-> TRUE, epOut |-> "ok", cfgOut |-> "ok"]
NoResult == [ret |-> FALSE, calls |-> <<>>, raised |-> FALSE]

\* ------------------------------ utils/endpoint_operations.py: wait_for_endpoint
\* texts are lists of words; `'not found' in str(e)` looks for the two words
\* side by side
HasNotFound(msg) ==
    \E i \in 1..(Len(msg) - 1) : msg[i] = "not" /\ msg[i + 1] = "found"

\* FailureReason texts of a failed endpoint; REASON_ABSENT: the key is absent
REASON_ABSENT == <<>>
REASON_CAPACITY == <<"no", "capacity">>
REASON_IMAGE == <<"image", "not", "found", "in", "registry">>
FailureReasons == {REASON_ABSENT, REASON_CAPACITY, REASON_IMAGE}

\* what describe_endpoint produces for check_endpoint_status
CheckReplies ==
    [kind : {"ok"}, status : EndpointStatuses]
    \cup [kind : {"not_found", "ClientError"}, status : {None}]

\* what the describe calls of get_endpoint_info produce
InfoReplies ==
    [kind : {"ok"}, reason : FailureReasons]
    \cup [kind : {"not_found", "ClientError"}, reason : {REASON_ABSENT}]

MSG_NOT_DEPLOYED ==
    <<"Endpoint", "qc-ep", "not", "found", ".", "Please", "deploy", "the", "model", "first.">>
MSG_INFO_NOT_FOUND == <<"Endpoint", "qc-ep", "not", "found", ".">>
MSG_CLIENT_ERROR == <<"ThrottlingException", "Rate", "exceeded">>

\* check_endpoint_status: the status, or the exception it raises
check_endpoint_status(r) ==
    IF r.kind = "ok" THEN [raised |-> FALSE, status |-> r.status, msg |-> <<>>]
    ELSE IF r.kind = "not_found"
    THEN [raised |-> TRUE, status |-> None, msg |-> MSG_NOT_DEPLOYED]
    ELSE [raised |-> TRUE, status |-> None, msg |-> MSG_CLIENT_ERROR]

\* get_endpoint_info: 'failure_reason' is response.get('FailureReason', None)
get_endpoint_info(r) ==
    IF r.kind = "ok"
    THEN [raised |-> FALSE, msg |-> <<>>,
          failure_reason |-> IF r.reason = REASON_ABSENT THEN <<"None">> ELSE r.reason]
    ELSE IF r.kind = "not_found"
    THEN [raised |-> TRUE, msg |-> MSG_INFO_NOT_FOUND, failure_reason |-> <<>>]
    ELSE [raised |-> TRUE, msg |-> MSG_CLIENT_ERROR, failure_reason |-> <<>>]

\* f"Endpoint deployment failed. Reason: {failure_reason}"
FailedMsg(failure_reason) ==
    <<"Endpoint", "deployment", "failed.", "Reason:">> \o failure_reason

\* `except Exception as e` of the loop: sleep and retry when the text holds
\* 'not found', raise again otherwise
WaitHandler(msg) ==
    IF HasNotFound(msg) THEN [act |-> "sleep", status |-> None, msg |-> <<>>]
    ELSE [act |-> "raise", status |-> None, msg |-> msg]

\* the body of the while loop of wait_for_endpoint for the answer r of
\* check_endpoint_status and, on Failed, the answer info of get_endpoint_info
WaitBody(r, info, target_status) ==
    LET c == check_endpoint_status(r)
    IN IF c.raised THEN WaitHandler(c.msg)
       ELSE IF c.status = target_status
       THEN [act |-> "return", status |-> c.status, msg |-> <<>>]
       ELSE IF c.status = "Failed"
       THEN LET g == get_endpoint_info(info)
            IN WaitHandler(IF g.raised THEN g.msg ELSE FailedMsg(g.failure_reason))
       ELSE [act |-> "sleep", status |-> None, msg |-> <<>>]

NoOut == [kind |-> "none", status |-> None, msg |-> <<>>]
NoCheck == [kind |-> "none", status |-> None]
NoInfo == [kind |-> "none", reason |-> REASON_ABSENT]
\* the answer drawn for get_endpoint_info when it is not called
NoInfoAsked == [kind |-> "ok", reason |-> REASON_ABSENT]
WfeIdle == [pc |-> "off", target_status |-> "InService", max_wait |-> 0,
            poll_interval |-> 1, elapsed |-> 0, polls |-> 0,
            last |-> NoCheck, info |-> NoInfo, out |-> NoOut]
CouIdle == [pc |-> "off", calls |-> <<>>, waits |-> 0, out |-> NoOut]

NoReply == [kind |-> "none", status |-> None, msg |-> <<>>, reason |-> NoReason]

\* -------------------------------------------------------------- log source
LogEvents ==
    { [logStreamName |-> "s1", timestamp |-> 1, eventId |-> 1],
      [logStreamName |-> "s1", timestamp |-> 2, eventId |-> 2] }
MaxBatch == 2
LOOKBACK_MS == 10 * 60 * 1000   \* timedelta(minutes=10) in milliseconds
TAILER_START == LOOKBACK_MS     \* datetime.now() in tail_logs, ms; fixes the origin of timestamps
INITIAL_CURSOR == TAILER_START - LOOKBACK_MS   \* (start_time - 10 minutes) in milliseconds

\* identity key f"{logStreamName}_{timestamp}_{eventId}"
EventKey(e) == <<e.logStreamName, e.timestamp, e.eventId>>

Max(a, b) == IF a >= b THEN a ELSE b

\* events of a second log source, which need not honour startTime: two events
\* of one stream with equal timestamps, one of another stream with the same
\* timestamp and id, and a later one
TailEvents ==
    { [logStreamName |-> "s1", timestamp |-> 1, eventId |-> 1],
      [logStreamName |-> "s1", timestamp |-> 1, eventId |-> 2],
      [logStreamName |-> "s2", timestamp |-> 1, eventId |-> 1],
      [logStreamName |-> "s1", timestamp |-> 3, eventId |-> 3] }
TailMaxBatch == 2       \* longest batch of that source
TailMaxCount == 2       \* returns counted per key under that source

\* an event the log group holds from before the look-back window
OLD_EVENT == [logStreamName |-> "s1", timestamp |-> -1, eventId |-> 0]

AllKeys == {EventKey(e) : e \in LogEvents \cup TailEvents \cup {OLD_EVENT}}

\* the events of the log source a query with startTime=cursor can return
Available(cursor) == {e \in LogEvents : e.timestamp >= cursor}

\* the batches filter_log_events(startTime=cursor, limit) may return
Batches(cursor) ==
    UNION {[1..n -> Available(cursor)] : n \in 0..MaxBatch}

RECURSIVE ProcessBatch_noDedup(_, _)
ProcessBatch_noDedup(events, st) ==
    IF events = <<>> THEN st
    ELSE LET e == Head(events)
         IN ProcessBatch_noDedup(Tail(events),
                    [ts |-> Max(st.ts, e.timestamp + 1),
                     seen |-> st.seen \cup {EventKey(e)},
                     out |-> Append(st.out, EventKey(e))])

RECURSIVE ProcessBatch_noMax(_, _)
ProcessBatch_noMax(events, st) ==
    IF events = <<>> THEN st
    ELSE LET e == Head(events)
         IN IF EventKey(e) \in st.seen
            THEN ProcessBatch_noMax(Tail(events), st)
            ELSE ProcessBatch_noMax(Tail(events),
                    [ts |-> e.timestamp + 1,
                     seen |-> st.seen \cup {EventKey(e)},
                     out |-> Append(st.out, EventKey(e))])

RECURSIVE ProcessBatch_newestFirst(_, _)
ProcessBatch_newestFirst(events, st) ==
    IF events = <<>> THEN st
    ELSE LET e == events[Len(events)]
             rest == SubSeq(events, 1, Len(events) - 1)
         IN IF EventKey(e) \in st.seen
            THEN ProcessBatch_newestFirst(rest, st)
            ELSE ProcessBatch_newestFirst(rest,
                    [ts |-> Max(st.ts, e.timestamp + 1),
                     seen |-> st.seen \cup {EventKey(e)},
                     out |-> Append(st.out, EventKey(e))])

\* the for loop of tail_logs over one batch, from state st = [ts, seen, out]
RECURSIVE ProcessBatch(_, _)
ProcessBatch(events, st) ==
    IF events = <<>> THEN st
    ELSE LET e == Head(events)
         IN IF EventKey(e) \in st.seen
            THEN ProcessBatch(Tail(events), st)
            ELSE ProcessBatch(Tail(events),
                    [ts |-> Max(st.ts, e.timestamp + 1),
                     seen |-> st.seen \cup {EventKey(e)},
                     out |-> Append(st.out, EventKey(e))])

\* ==================================================================== Init
Init ==
    /\ env \in [{required_env[i] : i \in 1..Len(required_env)} -> EnvValues]
    /\ instance_type \in InstanceTypes
    /\ no_monitor \in BOOLEAN
    /\ rollback_on_failure \in BOOLEAN
    /\ max_wait \in 0..MaxWait
    /\ check_interval \in 1..MaxInterval
    /\ pc = "validate_env"
    /\ exit_code = -1
    /\ outcome = ""
    /\ deployCalls = 0
    /\ now = 0
    /\ ppc = "off"
    /\ start_time = 0
    /\ callStart = 0
    /\ wakeAt = 0
    /\ last_status = None
    /\ lastReply = NoReply
    /\ statusOut = <<>>
    /\ lastCallDur = 0
    /\ pollerRet = None
    /\ retElapsed = 0
    /\ nPolls = 0
    /\ priorNotFound = TRUE
    /\ status_result = [status |-> None]
    /\ stop_event = FALSE
    /\ stopSets = 0
    /\ monResult = None
    /\ monReturns = 0
    /\ tpc = "off"
    /\ last_timestamp = INITIAL_CURSOR
    /\ seen_events = {}
    /\ printed = <<>>
    /\ nLogQueries = 0
    /\ returned = [k \in AllKeys |-> 0]
    /\ firstReturned = <<>>
    /\ retentionCalls = 0
    /\ rollbackInvoked = FALSE
    /\ deleteCalls = <<>>
    /\ report = {}
    /\ delArgs = NoArgs
    /\ delResult = NoResult
    /\ wfe = WfeIdle
    /\ cou = CouIdle

\* sys.exit(code) / end of the main thread
ExitWith(code, how) ==
    /\ pc' = "exited"
    /\ exit_code' = code
    /\ outcome' = how

\* ====================================================== main thread: __main__
\* Step 1: validate_env_vars(required_env) exits 1 when a variable is missing
ValidateEnvVars ==
    /\ pc = "validate_env"
    /\ IF EnvErrors(env) # <<>>
       THEN ExitWith(1, "ValidationError")
       ELSE /\ pc' = "validate_instance"
            /\ UNCHANGED <<exit_code, outcome>>
    /\ UNCHANGED <<inputVars, directVars, deployCalls, monResult, monReturns, retentionCalls,
                   rollbackInvoked, deleteCalls, report, pollerVars, sharedVars,
                   tailerVars, now>>

\* Step 2a: validate_instance_type(instance_type)
ValidateInstanceType ==
    /\ pc = "validate_instance"
    /\ IF ~validate_instance_type(instance_type).valid
       THEN ExitWith(1, "ValidationError")
       ELSE /\ pc' = "list_packages"
            /\ UNCHANGED <<exit_code, outcome>>
    /\ UNCHANGED <<inputVars, directVars, deployCalls, monResult, monReturns, retentionCalls,
                   rollbackInvoked, deleteCalls, report, pollerVars, sharedVars,
                   tailerVars, now>>

\* Step 6: list_model_packages returns the approved packages ([] on any error)
GetModelPackage ==
    /\ pc = "list_packages"
    /\ \E packages \in {<<>>, <<"arn-1">>, <<"arn-2", "arn-1">>} :
          IF packages = <<>>
          THEN ExitWith(1, "NoPackage")
          ELSE /\ pc' = "deploy"
               /\ UNCHANGED <<exit_code, outcome>>
    /\ UNCHANGED <<inputVars, directVars, deployCalls, monResult, monReturns, retentionCalls,
                   rollbackInvoked, deleteCalls, report, pollerVars, sharedVars,
                   tailerVars, now>>

\* Step 7: model.deploy(wait=False); an exception it raises is not caught and
\* ends the process with status 1.  Step 8, monitoring disabled: sys.exit(0).
Deploy_monitorAlways ==
    /\ pc = "deploy"
    /\ deployCalls' = deployCalls + 1
    /\ pc' = "monitor_start"
    /\ UNCHANGED <<inputVars, directVars, exit_code, outcome, monResult, monReturns,
                   retentionCalls, rollbackInvoked, deleteCalls, report, pollerVars,
                   sharedVars, tailerVars, now>>
Deploy ==
    /\ pc = "deploy"
    /\ deployCalls' = deployCalls + 1
    /\ \E accepted \in BOOLEAN :
          IF ~accepted THEN ExitWith(1, "DeployError")
          ELSE IF ~no_monitor
          THEN /\ pc' = "monitor_start"
               /\ UNCHANGED <<exit_code, outcome>>
          ELSE ExitWith(0, "Background")
    /\ UNCHANGED <<inputVars, directVars, monResult, monReturns, retentionCalls,
                   rollbackInvoked, deleteCalls, report, pollerVars, sharedVars,
                   tailerVars, now>>

\* ============================================== main thread: monitor_and_tail
\* where the main thread stands after the first put_retention_policy: the call
\* succeeded, or the handler of ResourceNotFoundException or the handler of
\* any other exception printed its warning
RetentionHandled == {"retention_ok", "retention_not_found", "retention_error"}

\* where it stands after the second put_retention_policy (`except: pass`)
RetryHandled == {"retry_ok", "retry_failed"}

\* put_retention_policy(logGroupName, retentionInDays=1) before monitoring
SetRetention_failureIsFatal ==
    /\ pc = "monitor_start"
    /\ retentionCalls' = retentionCalls + 1
    /\ \/ /\ pc' = "retention_ok"
          /\ UNCHANGED <<exit_code, outcome>>
       \/ ExitWith(1, "MonitorError")
    /\ UNCHANGED <<inputVars, directVars, deployCalls, monResult, monReturns,
                   rollbackInvoked, deleteCalls, report, pollerVars, sharedVars,
                   tailerVars, now>>
SetRetention ==
    /\ pc = "monitor_start"
    /\ retentionCalls' = retentionCalls + 1
    /\ pc' \in RetentionHandled
    /\ UNCHANGED <<inputVars, directVars, exit_code, outcome, deployCalls, monResult, monReturns,
                   rollbackInvoked, deleteCalls, report, pollerVars, sharedVars,
                   tailerVars, now>>

\* creation of status_result and stop_event, start of the two threads
MonitorStart ==
    /\ pc \in RetentionHandled
    /\ status_result' = [status |-> None]
    /\ stop_event' = FALSE
    /\ stopSets' = 0
    /\ ppc' = "begin"
    /\ tpc' = "delay"
    /\ pc' = "join_status"
    /\ UNCHANGED <<inputVars, directVars, exit_code, outcome, deployCalls, monResult, monReturns,
                   retentionCalls, rollbackInvoked, deleteCalls, report, start_time,
                   callStart, wakeAt,
                   last_status, lastReply, statusOut, lastCallDur, pollerRet, retElapsed,
                   nPolls, priorNotFound, last_timestamp, seen_events, printed,
                   nLogQueries, returned,
                   firstReturned, now>>

\* status_thread.join(): blocks until the status thread has ended
JoinStatus_noWait ==
    /\ pc = "join_status"
    /\ pc' = "join_logs"
    /\ UNCHANGED <<inputVars, directVars, exit_code, outcome, deployCalls, monResult, monReturns,
                   retentionCalls, rollbackInvoked, deleteCalls, report, pollerVars,
                   sharedVars, tailerVars, now>>
JoinStatus ==
    /\ pc = "join_status"
    /\ ppc \in {"finished", "dead"}
    /\ pc' = "join_logs"
    /\ UNCHANGED <<inputVars, directVars, exit_code, outcome, deployCalls, monResult, monReturns,
                   retentionCalls, rollbackInvoked, deleteCalls, report, pollerVars,
                   sharedVars, tailerVars, now>>

\* logs_thread.join(timeout=10) returns (the logs thread ended or the timeout
\* expired) and put_retention_policy is tried again
RetryRetention ==
    /\ pc = "join_logs"
    /\ retentionCalls' = retentionCalls + 1
    /\ pc' \in RetryHandled
    /\ UNCHANGED <<inputVars, directVars, exit_code, outcome, deployCalls, monResult, monReturns,
                   rollbackInvoked, deleteCalls, report, pollerVars, sharedVars,
                   tailerVars, now>>

\* return status_result.get('status', 'Unknown')
MonitorReturn_alwaysUnknown ==
    /\ pc \in RetryHandled
    /\ monResult' = "Unknown"
    /\ monReturns' = monReturns + 1
    /\ pc' = "handle_result"
    /\ UNCHANGED <<inputVars, directVars, exit_code, outcome, deployCalls, retentionCalls,
                   rollbackInvoked, deleteCalls, report, pollerVars, sharedVars,
                   tailerVars, now>>
MonitorReturn_waitsForTailer ==
    /\ pc \in RetryHandled
    /\ tpc = "finished"
    /\ monResult' = DictGet(status_result, "status", "Unknown")
    /\ monReturns' = monReturns + 1
    /\ pc' = "handle_result"
    /\ UNCHANGED <<inputVars, directVars, exit_code, outcome, deployCalls, retentionCalls,
                   rollbackInvoked, deleteCalls, report, pollerVars, sharedVars,
                   tailerVars, now>>
MonitorReturn ==
    /\ pc \in RetryHandled
    /\ monResult' = DictGet(status_result, "status", "Unknown")
    /\ monReturns' = monReturns + 1
    /\ pc' = "handle_result"
    /\ UNCHANGED <<inputVars, directVars, exit_code, outcome, deployCalls, retentionCalls,
                   rollbackInvoked, deleteCalls, report, pollerVars, sharedVars,
                   tailerVars, now>>

\* handle_deployment_result(status, ...) and sys.exit(exit_code)
HandleDeploymentResult ==
    /\ pc = "handle_result"
    /\ \E epOut \in DeleteOutcomes, cfgOut \in DeleteOutcomes :
          LET h == handle_deployment_result(monResult, endpoint_name,
                                            rollback_on_failure, epOut, cfgOut)
          IN /\ rollbackInvoked' = h.rollback
             /\ deleteCalls' = deleteCalls \o h.calls
             /\ report' = h.report
             /\ ExitWith(h.code, h.branch)
    /\ UNCHANGED <<inputVars, directVars, deployCalls, monResult, monReturns, retentionCalls,
                   pollerVars, sharedVars, tailerVars, now>>

\* ============================== status thread: monitor_status, the poller
LoopTop_neverTimesOut ==
    IF WithinBudget(now, start_time', max_wait, check_interval)
    THEN /\ ppc' = "calling"
         /\ callStart' = now
         /\ nPolls' = nPolls + 1
         /\ UNCHANGED <<pollerRet, retElapsed, status_result>>
    ELSE /\ ppc' = "sleeping"
         /\ UNCHANGED <<pollerRet, retElapsed, status_result, callStart, nPolls>>

LoopTop_timeoutNotRecorded ==
    IF WithinBudget(now, start_time', max_wait, check_interval)
    THEN /\ ppc' = "calling"
         /\ callStart' = now
         /\ nPolls' = nPolls + 1
         /\ UNCHANGED <<pollerRet, retElapsed, status_result>>
    ELSE /\ ppc' = "recorded"
         /\ pollerRet' = "Timeout"
         /\ retElapsed' = now - start_time'
         /\ UNCHANGED <<status_result, callStart, nPolls>>

\* The top of the while loop of monitor_endpoint_status at time `now`: inside
\* the budget describe_endpoint is called; otherwise 'Timeout' is returned and
\* monitor_status stores it in status_result.
LoopTop ==
    IF WithinBudget(now, start_time', max_wait, check_interval)
    THEN /\ ppc' = "calling"
         /\ callStart' = now
         /\ nPolls' = nPolls + 1
         /\ UNCHANGED <<pollerRet, retElapsed, status_result>>
    ELSE /\ ppc' = "recorded"
         /\ pollerRet' = "Timeout"
         /\ retElapsed' = now - start_time'
         /\ status_result' = [status_result EXCEPT !["status"] = "Timeout"]
         /\ UNCHANGED <<callStart, nPolls>>

\* monitor_endpoint_status begins: start_time = time.time(), last_status = None,
\* first evaluation of the while condition
PollerBegin ==
    /\ ppc = "begin"
    /\ start_time' = now
    /\ last_status' = None
    /\ LoopTop
    /\ UNCHANGED <<inputVars, directVars, mainVars, tailerVars, now, stop_event, stopSets,
                   wakeAt,
                   lastReply, statusOut, lastCallDur, priorNotFound>>

\* describe_endpoint answers and the loop body handles the answer: it returns
\* a terminal value, which monitor_status stores in status_result, or it
\* starts time.sleep(check_interval)
PollerDescribe ==
    /\ ppc = "calling"
    /\ \E r \in DescribeReplies :
          /\ lastReply' = r
          /\ lastCallDur' = now - callStart
          /\ priorNotFound' = (priorNotFound /\ (lastReply = NoReply \/ IsNotFound(lastReply)))
          /\ last_status' = StatusBlock(r, last_status).last
          /\ statusOut' = StatusBlock(r, last_status).lines
          /\ IF PollOutcome(r) # None
             THEN /\ ppc' = "recorded"
                  /\ pollerRet' = PollOutcome(r)
                  /\ retElapsed' = now - start_time
                  /\ status_result' = [status_result EXCEPT !["status"] = PollOutcome(r)]
                  /\ UNCHANGED wakeAt
             ELSE /\ ppc' = "sleeping"
                  /\ wakeAt' = now + check_interval
                  /\ UNCHANGED <<pollerRet, retElapsed, status_result>>
    /\ UNCHANGED <<inputVars, directVars, mainVars, tailerVars, now, stop_event, stopSets,
                   start_time,
                   callStart, nPolls>>

\* time.sleep(check_interval) ends and the while condition is evaluated again
PollerWake ==
    /\ ppc = "sleeping"
    /\ now = wakeAt
    /\ start_time' = start_time
    /\ LoopTop
    /\ UNCHANGED <<inputVars, directVars, mainVars, tailerVars, now, stop_event, stopSets,
                   wakeAt,
                   last_status, lastReply, statusOut, lastCallDur, priorNotFound>>

\* monitor_status: stop_event.set()
SetStopEvent_notOnError ==
    /\ ppc = "recorded"
    /\ stop_event' = (pollerRet # "Error")
    /\ stopSets' = IF pollerRet # "Error" THEN stopSets + 1 ELSE stopSets
    /\ ppc' = "finished"
    /\ UNCHANGED <<inputVars, directVars, mainVars, tailerVars, now, status_result, start_time,
                   callStart, wakeAt, last_status, lastReply, statusOut, lastCallDur,
                   pollerRet, retElapsed, nPolls, priorNotFound>>

SetStopEvent_resetsCursor ==
    /\ ppc = "recorded"
    /\ stop_event' = TRUE
    /\ stopSets' = stopSets + 1
    /\ ppc' = "finished"
    /\ last_timestamp' = INITIAL_CURSOR
    /\ UNCHANGED <<inputVars, directVars, mainVars, tpc, seen_events, printed, nLogQueries, returned,
                   firstReturned, now, status_result, start_time,
                   callStart, wakeAt, last_status, lastReply, statusOut, lastCallDur,
                   pollerRet, retElapsed, nPolls, priorNotFound>>
SetStopEvent ==
    /\ ppc = "recorded"
    /\ stop_event' = TRUE
    /\ stopSets' = stopSets + 1
    /\ ppc' = "finished"
    /\ UNCHANGED <<inputVars, directVars, mainVars, tailerVars, now, status_result, start_time,
                   callStart, wakeAt, last_status, lastReply, statusOut, lastCallDur,
                   pollerRet, retElapsed, nPolls, priorNotFound>>

\* an exception escapes monitor_endpoint_status (a print that fails in the
\* banner or in a handler): the thread ends before monitor_status stores a
\* status or sets the event
PollerThreadDies ==
    /\ ppc \in {"begin", "calling"}
    /\ ppc' = "dead"
    /\ UNCHANGED <<inputVars, directVars, mainVars, sharedVars, tailerVars, now, start_time,
                   callStart, wakeAt, last_status, lastReply, statusOut, lastCallDur,
                   pollerRet, retElapsed, nPolls, priorNotFound>>

\* the clock advances while the poller sleeps or waits for describe_endpoint
Tick ==
    /\ \/ ppc = "sleeping" /\ now < wakeAt
       \/ ppc = "calling" /\ now - callStart < MaxCallDur
    /\ now' = now + 1
    /\ UNCHANGED <<inputVars, directVars, mainVars, pollerVars, sharedVars, tailerVars>>

\* ======================================= logs thread: tail_logs_thread, tail_logs
\* the logs thread sleeps 3 s after an answer, 10 s in the handler of
\* ResourceNotFoundException, 5 s in the handler of any other exception
TailerSleeps == {"sleep", "sleep_not_found", "sleep_error"}

LoopOrLeave_ignoresStop == "query"

\* `while not stop_event.is_set()`: the next position of the logs thread
LoopOrLeave == IF stop_event THEN "finished" ELSE "query"

\* time.sleep(10) ends, tail_logs initialises its cursor and seen set and
\* evaluates the while condition for the first time
TailerAttach_queriesFirst ==
    /\ tpc = "delay"
    /\ last_timestamp' = INITIAL_CURSOR
    /\ seen_events' = {}
    /\ tpc' = "query"
    /\ UNCHANGED <<inputVars, directVars, mainVars, pollerVars, sharedVars, now, printed,
                   nLogQueries, returned,
                   firstReturned>>
TailerAttach ==
    /\ tpc = "delay"
    /\ last_timestamp' = INITIAL_CURSOR
    /\ seen_events' = {}
    /\ tpc' = LoopOrLeave
    /\ UNCHANGED <<inputVars, directVars, mainVars, pollerVars, sharedVars, now, printed,
                   nLogQueries, returned,
                   firstReturned>>

\* the identity keys of a batch, in the order of the batch
KeysOf(batch) == [i \in 1..Len(batch) |-> EventKey(batch[i])]

\* a sequence without its repetitions: position i stays iff no earlier
\* position holds the same element
RECURSIVE FirstOccurrences(_)
FirstOccurrences(s) ==
    IF s = <<>> THEN <<>>
    ELSE LET n == Len(s)
             front == FirstOccurrences(SubSeq(s, 1, n - 1))
         IN IF \E j \in 1..(n - 1) : s[j] = s[n] THEN front
            ELSE Append(front, s[n])

\* how often key k occurs in a batch
Occurrences(batch, k) == Cardinality({i \in 1..Len(batch) : EventKey(batch[i]) = k})

\* the return counts after one more batch, each count saturating at cap
CountReturned(counts, batch, cap) ==
    [k \in DOMAIN counts |->
        IF counts[k] + Occurrences(batch, k) >= cap THEN cap
        ELSE counts[k] + Occurrences(batch, k)]

QueryStep_errorEndsTailer(batches, cap) ==
    /\ tpc = "query"
    /\ nLogQueries' = IF nLogQueries < MaxLogQueries THEN nLogQueries + 1
                      ELSE nLogQueries
    /\ \/ \E batch \in batches :
             LET st == ProcessBatch(batch, [ts |-> last_timestamp,
                                            seen |-> seen_events, out |-> printed])
             IN /\ last_timestamp' = st.ts
                /\ seen_events' = st.seen
                /\ printed' = st.out
                /\ returned' = CountReturned(returned, batch, cap)
                /\ firstReturned' = FirstOccurrences(firstReturned \o KeysOf(batch))
                /\ tpc' = "sleep"
       \/ \E err \in {"ResourceNotFoundException", "Exception"} :
             /\ tpc' = "finished"
             /\ UNCHANGED <<last_timestamp, seen_events, printed, returned,
                            firstReturned>>
    /\ UNCHANGED <<inputVars, directVars, mainVars, pollerVars, sharedVars, now>>

\* One iteration of the while loop of tail_logs: filter_log_events answers
\* with one of `batches`, which is printed, or raises, which is caught; then
\* the thread sleeps (3 s after an answer, 10 s after not-found, 5 s otherwise)
QueryStep(batches, cap) ==
    /\ tpc = "query"
    /\ nLogQueries' = IF nLogQueries < MaxLogQueries THEN nLogQueries + 1
                      ELSE nLogQueries
    /\ \/ \E batch \in batches :
             LET st == ProcessBatch(batch, [ts |-> last_timestamp,
                                            seen |-> seen_events, out |-> printed])
             IN /\ last_timestamp' = st.ts
                /\ seen_events' = st.seen
                /\ printed' = st.out
                /\ returned' = CountReturned(returned, batch, cap)
                /\ firstReturned' = FirstOccurrences(firstReturned \o KeysOf(batch))
                /\ tpc' = "sleep"
       \/ \E err \in {"ResourceNotFoundException", "Exception"} :
             /\ tpc' = IF err = "ResourceNotFoundException"
                       THEN "sleep_not_found" ELSE "sleep_error"
             /\ UNCHANGED <<last_timestamp, seen_events, printed, returned,
                            firstReturned>>
    /\ UNCHANGED <<inputVars, directVars, mainVars, pollerVars, sharedVars, now>>

\* the iteration against a log source that honours startTime
TailerQuery == QueryStep(Batches(last_timestamp), 1)

\* time.sleep(3), time.sleep(10) or time.sleep(5) ends and the while
\* condition is evaluated again
TailerSleepDone ==
    /\ tpc \in TailerSleeps
    /\ tpc' = LoopOrLeave
    /\ UNCHANGED <<inputVars, directVars, mainVars, pollerVars, sharedVars, now,
                   last_timestamp, seen_events, printed, nLogQueries, returned,
                   firstReturned>>

\* ------------------------------------------- the tailer on its own (SpecTail)
\* the batches a log source may return when it repeats and reorders events
\* and ignores startTime
AnyBatches == UNION {[1..n -> TailEvents] : n \in 0..TailMaxBatch}

\* one iteration of tail_logs against that source
TailFeed == QueryStep(AnyBatches, TailMaxCount)

\* the state monitor_and_tail leaves when it has started both threads, for a
\* run with valid inputs
TailInit ==
    /\ env = [n \in {required_env[i] : i \in 1..Len(required_env)} |-> Str(<<"x">>)]
    /\ instance_type = T_C5_2XL
    /\ no_monitor = FALSE
    /\ rollback_on_failure \in BOOLEAN
    /\ max_wait = MaxWait
    /\ check_interval = 1
    /\ pc = "join_status"
    /\ exit_code = -1
    /\ outcome = ""
    /\ deployCalls = 1
    /\ now = 0
    /\ ppc = "begin"
    /\ start_time = 0
    /\ callStart = 0
    /\ wakeAt = 0
    /\ last_status = None
    /\ lastReply = NoReply
    /\ statusOut = <<>>
    /\ lastCallDur = 0
    /\ pollerRet = None
    /\ retElapsed = 0
    /\ nPolls = 0
    /\ priorNotFound = TRUE
    /\ status_result = [status |-> None]
    /\ stop_event = FALSE
    /\ stopSets = 0
    /\ monResult = None
    /\ monReturns = 0
    /\ tpc = "delay"
    /\ last_timestamp = INITIAL_CURSOR
    /\ seen_events = {}
    /\ printed = <<>>
    /\ nLogQueries = 0
    /\ returned = [k \in AllKeys |-> 0]
    /\ firstReturned = <<>>
    /\ retentionCalls = 1
    /\ rollbackInvoked = FALSE
    /\ deleteCalls = <<>>
    /\ report = {}
    /\ delArgs = NoArgs
    /\ delResult = NoResult
    /\ wfe = WfeIdle
    /\ cou = CouIdle

TailNext ==
    \/ TailerAttach
    \/ TailFeed
    \/ TailerSleepDone

SpecTail == TailInit /\ [][TailNext]_vars

\* ---- the tailer alone against a source that honours startTime and order
\* the batches filter_log_events(startTime=cursor, limit) returns when the
\* source lists its events from the cursor on by ascending timestamp and cuts
\* the listing at the limit or earlier: distinct events, none older than the
\* cursor, and no omitted event older than an included one
OrderedBatches_noStartTime(cursor) ==
    LET avail == TailEvents \cup {OLD_EVENT}
    IN {b \in UNION {[1..n -> avail] : n \in 0..TailMaxBatch} :
          /\ \A i, j \in 1..Len(b) : i < j =>
                 /\ b[i] # b[j]
                 /\ b[i].timestamp <= b[j].timestamp
          /\ \A e \in avail : \A i \in 1..Len(b) :
                 (\A j \in 1..Len(b) : b[j] # e) => e.timestamp >= b[i].timestamp}
OrderedBatches(cursor) ==
    LET avail == {e \in TailEvents \cup {OLD_EVENT} : e.timestamp >= cursor}
    IN {b \in UNION {[1..n -> avail] : n \in 0..TailMaxBatch} :
          /\ \A i, j \in 1..Len(b) : i < j =>
                 /\ b[i] # b[j]
                 /\ b[i].timestamp <= b[j].timestamp
          /\ \A e \in avail : \A i \in 1..Len(b) :
                 (\A j \in 1..Len(b) : b[j] # e) => e.timestamp >= b[i].timestamp}

\* the iteration of tail_logs against that source
LossQuery == QueryStep(OrderedBatches(last_timestamp), TailMaxCount)

\* an iteration after which event e has been taken from a batch
Delivers(e) == LossQuery /\ EventKey(e) \in seen_events'

LossNext ==
    \/ TailerAttach
    \/ LossQuery
    \/ TailerSleepDone

\* the tailer keeps running (its sleeps end, its calls return) and the source
\* does not withhold for ever an event that a query can return again and again
SpecLoss ==
    /\ TailInit
    /\ [][LossNext]_vars
    /\ WF_vars(TailerAttach)
    /\ WF_vars(LossQuery)
    /\ WF_vars(TailerSleepDone)
    /\ \A e \in TailEvents : SF_vars(Delivers(e))

\* --------------------------------- delete_endpoint on its own (SpecDelete)
\* endpoint names a caller may pass
EndpointNames == {endpoint_name, "ep-2", "ep-3", "ep-4"}

\* a caller is about to call delete_endpoint(sm_client, name, delete_config)
\* and the two collaborator calls will end as epOut and cfgOut
DeleteInit ==
    /\ env = [n \in {required_env[i] : i \in 1..Len(required_env)} |-> Str(<<"x">>)]
    /\ instance_type = T_C5_2XL
    /\ no_monitor = FALSE
    /\ rollback_on_failure = TRUE
    /\ max_wait = MaxWait
    /\ check_interval = 1
    /\ pc = "validate_env"
    /\ exit_code = -1
    /\ outcome = ""
    /\ deployCalls = 0
    /\ now = 0
    /\ ppc = "off"
    /\ start_time = 0
    /\ callStart = 0
    /\ wakeAt = 0
    /\ last_status = None
    /\ lastReply = NoReply
    /\ statusOut = <<>>
    /\ lastCallDur = 0
    /\ pollerRet = None
    /\ retElapsed = 0
    /\ nPolls = 0
    /\ priorNotFound = TRUE
    /\ status_result = [status |-> None]
    /\ stop_event = FALSE
    /\ stopSets = 0
    /\ monResult = None
    /\ monReturns = 0
    /\ tpc = "off"
    /\ last_timestamp = INITIAL_CURSOR
    /\ seen_events = {}
    /\ printed = <<>>
    /\ nLogQueries = 0
    /\ returned = [k \in AllKeys |-> 0]
    /\ firstReturned = <<>>
    /\ retentionCalls = 0
    /\ rollbackInvoked = FALSE
    /\ deleteCalls = <<>>
    /\ report = {}
    /\ delArgs \in [name : EndpointNames, delete_config : BOOLEAN,
                   epOut : DeleteOutcomes, cfgOut : DeleteOutcomes]
    /\ delResult = NoResult
    /\ wfe = WfeIdle
    /\ cou = CouIdle

\* the call: delete_endpoint(sm_client, name, delete_config)
DirectDelete ==
    /\ delResult = NoResult
    /\ delResult' = delete_endpoint(delArgs.name, delArgs.delete_config,
                                    delArgs.epOut, delArgs.cfgOut)
    /\ UNCHANGED <<inputVars, mainVars, pollerVars, sharedVars, tailerVars,
                   delArgs, wfe, cou, now>>

DeleteNext == DirectDelete

SpecDelete == DeleteInit /\ [][DeleteNext]_vars

\* ---- a call of wait_for_endpoint(sagemaker_client, endpoint_name,
\* target_status, max_wait, poll_interval)
WaitTargets == {"InService", "Creating", "Failed"}

WaitInit ==
    /\ env = [n \in {required_env[i] : i \in 1..Len(required_env)} |-> Str(<<"x">>)]
    /\ instance_type = T_C5_2XL
    /\ no_monitor = FALSE
    /\ rollback_on_failure = TRUE
    /\ max_wait = MaxWait
    /\ check_interval = 1
    /\ pc = "validate_env"
    /\ exit_code = -1
    /\ outcome = ""
    /\ deployCalls = 0
    /\ now = 0
    /\ ppc = "off"
    /\ start_time = 0
    /\ callStart = 0
    /\ wakeAt = 0
    /\ last_status = None
    /\ lastReply = NoReply
    /\ statusOut = <<>>
    /\ lastCallDur = 0
    /\ pollerRet = None
    /\ retElapsed = 0
    /\ nPolls = 0
    /\ priorNotFound = TRUE
    /\ status_result = [status |-> None]
    /\ stop_event = FALSE
    /\ stopSets = 0
    /\ monResult = None
    /\ monReturns = 0
    /\ tpc = "off"
    /\ last_timestamp = INITIAL_CURSOR
    /\ seen_events = {}
    /\ printed = <<>>
    /\ nLogQueries = 0
    /\ returned = [k \in AllKeys |-> 0]
    /\ firstReturned = <<>>
    /\ retentionCalls = 0
    /\ rollbackInvoked = FALSE
    /\ deleteCalls = <<>>
    /\ report = {}
    /\ delArgs = NoArgs
    /\ delResult = NoResult
    /\ wfe \in [pc : {"begin"}, target_status : WaitTargets, max_wait : 0..MaxWait,
               poll_interval : 1..MaxInterval, elapsed : {0}, polls : {0},
               last : {NoCheck}, info : {NoInfo}, out : {NoOut}]
    /\ cou = CouIdle

WaitOthers == <<inputVars, mainVars, pollerVars, sharedVars, tailerVars,
                delArgs, delResult, cou, now>>

\* start_time = time.time(), elapsed = 0, first test of `elapsed < max_wait`
WaitBegin ==
    /\ wfe.pc = "begin"
    /\ wfe' = [wfe EXCEPT !.pc = IF 0 < wfe.max_wait THEN "loop" ELSE "final"]
    /\ UNCHANGED WaitOthers

\* one iteration of the loop: the status check, on Failed the info request,
\* then return, raise, or time.sleep(poll_interval), the new elapsed time and
\* the loop test; d is the time the calls took
WaitPoll ==
    /\ wfe.pc = "loop"
    /\ \E r \in CheckReplies, info \in InfoReplies, d \in 0..MaxCallDur :
          LET b == WaitBody(r, info, wfe.target_status)
              failed == r.kind = "ok" /\ r.status = "Failed"
                        /\ r.status # wfe.target_status
              t == wfe.elapsed + wfe.poll_interval + d
          IN /\ (~failed) => info = NoInfoAsked
             /\ wfe' = [wfe EXCEPT
                   !.polls = @ + 1,
                   !.last = r,
                   !.info = IF failed THEN info ELSE NoInfo,
                   !.elapsed = IF b.act = "sleep" THEN t ELSE @,
                   !.pc = IF b.act # "sleep" THEN "done"
                          ELSE IF t < wfe.max_wait THEN "loop" ELSE "final",
                   !.out = IF b.act = "sleep" THEN NoOut
                           ELSE [kind |-> b.act, status |-> b.status, msg |-> b.msg]]
    /\ UNCHANGED WaitOthers

\* after the loop: current_status = check_endpoint_status(...) is returned,
\* or its exception propagates
WaitFinal ==
    /\ wfe.pc = "final"
    /\ \E r \in CheckReplies :
          LET c == check_endpoint_status(r)
          IN wfe' = [wfe EXCEPT
                !.last = r,
                !.pc = "done",
                !.out = IF c.raised
                        THEN [kind |-> "raise", status |-> None, msg |-> c.msg]
                        ELSE [kind |-> "return", status |-> c.status, msg |-> <<>>]]
    /\ UNCHANGED WaitOthers

WaitNext ==
    \/ WaitBegin
    \/ WaitPoll
    \/ WaitFinal

SpecWait == WaitInit /\ [][WaitNext]_vars

\* ---- utils/sagemaker_endpoint.py: create_or_update_endpoint(sagemaker_client,
\* endpoint_name, config_name)
MaxCouWaits == 2        \* time.sleep(5) rounds of its wait_for_endpoint modelled

CouStatuses == {"Creating", "Updating", "RollingBack", "InService", "Failed"}
WaitingStatuses == {"Creating", "Updating", "RollingBack"}

NoErr == [kind |-> "none", code |-> "", msg |-> <<>>]

\* the exceptions a collaborator call may raise: a ClientError with its
\* error code and text, or another exception
CouErrors ==
    [kind : {"ClientError"}, code : {"ValidationException", "ThrottlingException"},
     msg : {MSG_NOT_FOUND, MSG_THROTTLED}]
    \cup {[kind |-> "Exception", code |-> "", msg |-> <<>>]}

\* one collaborator call: what was called, the status a describe returned,
\* the exception raised (NoErr: the call succeeded)
CouCall(op, status, err) == [op |-> op, status |-> status, err |-> err]

\* the test of the handler of ClientError
CreateOnError_anyClientError(e) == TRUE
CreateOnError(e) ==
    e.code = "ValidationException" /\ MsgContains(e.msg, "Could not find endpoint")

\* an exception e leaves the try block: `except ClientError` creates the
\* endpoint or raises again; any other exception propagates.  createErr is
\* what create_endpoint raises (NoErr: it succeeds).
CouHandle(e, createErr) ==
    IF e.kind = "ClientError" /\ CreateOnError(e)
    THEN [calls |-> <<CouCall("create_endpoint", None, createErr)>>,
          out |-> IF createErr = NoErr
                  THEN [kind |-> "return", status |-> None, msg |-> <<>>]
                  ELSE [kind |-> "raise", status |-> None, msg |-> createErr.msg]]
    ELSE [calls |-> <<>>, out |-> [kind |-> "raise", status |-> None, msg |-> e.msg]]

CouInit ==
    /\ env = [n \in {required_env[i] : i \in 1..Len(required_env)} |-> Str(<<"x">>)]
    /\ instance_type = T_C5_2XL
    /\ no_monitor = FALSE
    /\ rollback_on_failure = TRUE
    /\ max_wait = MaxWait
    /\ check_interval = 1
    /\ pc = "validate_env"
    /\ exit_code = -1
    /\ outcome = ""
    /\ deployCalls = 0
    /\ now = 0
    /\ ppc = "off"
    /\ start_time = 0
    /\ callStart = 0
    /\ wakeAt = 0
    /\ last_status = None
    /\ lastReply = NoReply
    /\ statusOut = <<>>
    /\ lastCallDur = 0
    /\ pollerRet = None
    /\ retElapsed = 0
    /\ nPolls = 0
    /\ priorNotFound = TRUE
    /\ status_result = [status |-> None]
    /\ stop_event = FALSE
    /\ stopSets = 0
    /\ monResult = None
    /\ monReturns = 0
    /\ tpc = "off"
    /\ last_timestamp = INITIAL_CURSOR
    /\ seen_events = {}
    /\ printed = <<>>
    /\ nLogQueries = 0
    /\ returned = [k \in AllKeys |-> 0]
    /\ firstReturned = <<>>
    /\ retentionCalls = 0
    /\ rollbackInvoked = FALSE
    /\ deleteCalls = <<>>
    /\ report = {}
    /\ delArgs = NoArgs
    /\ delResult = NoResult
    /\ wfe = WfeIdle
    /\ cou = [pc |-> "begin", calls |-> <<>>, waits |-> 0, out |-> NoOut]

CouOthers == <<inputVars, mainVars, pollerVars, sharedVars, tailerVars,
               delArgs, delResult, wfe, now>>

\* the call ends after exception e left the try block
CouFails(call, e) ==
    \E createErr \in CouErrors \cup {NoErr} :
       LET h == CouHandle(e, createErr)
       IN /\ (h.calls = <<>>) => createErr = NoErr
          /\ cou' = [cou EXCEPT !.calls = (@ \o <<call>>) \o h.calls,
                                !.pc = "done", !.out = h.out]

\* desc = describe_endpoint(...) of create_or_update_endpoint; the status is
\* printed and wait_for_endpoint is entered
CouDescribe ==
    /\ cou.pc = "begin"
    /\ \/ \E st \in CouStatuses :
             cou' = [cou EXCEPT !.calls = Append(@, CouCall("describe_endpoint", st, NoErr)),
                                !.pc = "wait"]
       \/ \E e \in CouErrors : CouFails(CouCall("describe_endpoint", None, e), e)
    /\ UNCHANGED CouOthers

\* a describe_endpoint of wait_for_endpoint: it sleeps 5 s and asks again
\* while the status is Creating, Updating or RollingBack, returns on
\* InService and raises RuntimeError on any other status
CouWait ==
    /\ cou.pc = "wait"
    /\ \/ \E st \in CouStatuses :
             /\ st \in WaitingStatuses => cou.waits < MaxCouWaits
             /\ cou' = [cou EXCEPT
                   !.calls = Append(@, CouCall("describe_endpoint", st, NoErr)),
                   !.waits = IF st \in WaitingStatuses THEN @ + 1 ELSE @,
                   !.pc = IF st \in WaitingStatuses THEN "wait"
                          ELSE IF st = "InService" THEN "update" ELSE "done",
                   !.out = IF st \in WaitingStatuses \cup {"InService"} THEN NoOut
                           ELSE [kind |-> "raise", status |-> st,
                                 msg |-> <<"Endpoint did not reach InService state">>]]
       \/ \E e \in CouErrors : CouFails(CouCall("describe_endpoint", None, e), e)
    /\ UNCHANGED CouOthers

\* update_endpoint(EndpointName, EndpointConfigName) and the return
CouUpdate ==
    /\ cou.pc = "update"
    /\ \/ cou' = [cou EXCEPT !.calls = Append(@, CouCall("update_endpoint", None, NoErr)),
                              !.pc = "done",
                              !.out = [kind |-> "return", status |-> None, msg |-> <<>>]]
       \/ \E e \in CouErrors : CouFails(CouCall("update_endpoint", None, e), e)
    /\ UNCHANGED CouOthers

CouNext ==
    \/ CouDescribe
    \/ CouWait
    \/ CouUpdate

SpecCou == CouInit /\ [][CouNext]_vars

\* ------------------------------------- one monitoring session (LiveSpec)
\* the steps from the start of the two threads to the end of the process
LiveNext ==
    \/ JoinStatus
    \/ RetryRetention
    \/ MonitorReturn
    \/ HandleDeploymentResult
    \/ PollerBegin
    \/ PollerDescribe
    \/ PollerWake
    \/ SetStopEvent
    \/ PollerThreadDies
    \/ Tick
    \/ TailerAttach
    \/ TailerQuery
    \/ TailerSleepDone

\* The main thread is scheduled: status_thread.join() returns once the status
\* thread has ended, and logs_thread.join(timeout=10) returns after at most
\* 10 s whatever the logs thread does, and put_retention_policy returns.
\* Nothing is assumed of the two threads:
\* a describe_endpoint or filter_log_events call may never return.
LiveSpec ==
    /\ TailInit /\ [][LiveNext]_vars
    /\ WF_vars(JoinStatus) /\ WF_vars(RetryRetention) /\ WF_vars(MonitorReturn)

\* the two threads without the main thread, which waits in
\* status_thread.join() and writes none of their variables
ThreadsNext ==
    \/ PollerBegin
    \/ PollerDescribe
    \/ PollerWake
    \/ SetStopEvent
    \/ PollerThreadDies
    \/ Tick
    \/ TailerAttach
    \/ TailerQuery
    \/ TailerSleepDone

\* The logs thread is scheduled and its calls return: time.sleep ends and
\* filter_log_events answers or raises.  Nothing is assumed of the status
\* thread.
TailLiveSpec ==
    /\ TailInit /\ [][ThreadsNext]_vars
    /\ WF_vars(TailerAttach) /\ WF_vars(TailerQuery) /\ WF_vars(TailerSleepDone)

\* The status thread is scheduled, time passes, time.sleep ends and every
\* describe_endpoint call returns (an answer or an exception) within
\* MaxCallDur.  Nothing is assumed of the logs thread.
PollLiveSpec ==
    /\ TailInit /\ [][ThreadsNext]_vars
    /\ WF_vars(PollerBegin) /\ WF_vars(PollerDescribe) /\ WF_vars(PollerWake)
    /\ WF_vars(Tick)

\* ==================================================================== Next
Next ==
    \/ ValidateEnvVars
    \/ ValidateInstanceType
    \/ GetModelPackage
    \/ Deploy
    \/ SetRetention
    \/ MonitorStart
    \/ JoinStatus
    \/ RetryRetention
    \/ MonitorReturn
    \/ HandleDeploymentResult
    \/ PollerBegin
    \/ PollerDescribe
    \/ PollerWake
    \/ SetStopEvent
    \/ PollerThreadDies
    \/ Tick
    \/ TailerAttach
    \/ TailerQuery
    \/ TailerSleepDone

Spec == Init /\ [][Next]_vars

\* ================================================================== claims
AllSpaces(s) == \A i \in 1..Len(s) : s[i] = " "
BadEnv == \E n \in DOMAIN env : env[n].isNone \/ AllSpaces(env[n].s)
BadInstanceType ==
    \/ Len(instance_type.s) < 3
    \/ <<instance_type.s[1], instance_type.s[2], instance_type.s[3]>> # <<"m", "l", ".">>
HandlerRan == pc = "exited" /\ monReturns = 1
Terminal == {"InService", "Failed", "Timeout", "Error"}

\* C1: for a monitor result in {InService, Failed, Timeout} and either setting
\* of the rollback flag, handle_deployment_result invokes delete_endpoint iff
\* the result is not InService and rollback is enabled; an InService endpoint
\* is never deleted and with --skip-rollback no delete call is ever made.
C1_RollbackIffFailedAndEnabled ==
    /\ (HandlerRan /\ monResult \in {"InService", "Failed", "Timeout"})
          => /\ rollbackInvoked <=> (monResult # "InService" /\ rollback_on_failure)
             /\ (deleteCalls # <<>>) <=> rollbackInvoked
    /\ monResult = "InService" => deleteCalls = <<>>
    /\ ~rollback_on_failure => (deleteCalls = <<>> /\ ~rollbackInvoked)
    /\ ~HandlerRan => (deleteCalls = <<>> /\ ~rollbackInvoked)

C1_Witness ==
    /\ HandlerRan /\ monResult = "Timeout" /\ rollback_on_failure
    /\ rollbackInvoked /\ Len(deleteCalls) = 2

\* C2: the exit code is 0 exactly when the run ends with monitor result
\* InService or, monitoring disabled, right after an accepted deploy request;
\* every other end of a run yields exit code 1.
C2_ExitCodeMapping ==
    /\ pc # "exited" => exit_code = -1
    /\ pc = "exited" =>
          /\ exit_code \in {0, 1}
          /\ exit_code = 0 <=>
                /\ deployCalls = 1
                /\ outcome # "DeployError"
                /\ IF no_monitor THEN monReturns = 0
                   ELSE monReturns = 1 /\ monResult = "InService"

C2_Witness ==
    /\ pc = "exited" /\ exit_code = 1 /\ monResult = "Failed"
    /\ rollbackInvoked /\ outcome = "RolledBack"

\* C3: when a required environment variable is missing or blank, or the
\* instance type is empty or lacks the 'ml.' prefix, or no approved package is
\* found, the run ends with exit code 1 and model.deploy is never called.
C3_ValidationFailureNeverDeploys ==
    /\ (BadEnv \/ BadInstanceType) =>
          /\ deployCalls = 0
          /\ pc \in {"validate_env", "validate_instance", "exited"}
          /\ pc = "exited" => (exit_code = 1 /\ outcome = "ValidationError")
    /\ BadEnv => pc \in {"validate_env", "exited"}
    /\ outcome = "NoPackage" => (deployCalls = 0 /\ exit_code = 1)

C3_Witness ==
    /\ env["AWS_REGION"] = Str(<<"x">>)
    /\ env["SAGEMAKER_EXECUTION_ROLE_ARN"] = Str(<<" ">>)
    /\ pc = "exited" /\ exit_code = 1 /\ deployCalls = 0

\* the positions of the main thread inside and after monitor_and_tail
MonitoringPcs ==
    {"monitor_start", "join_status", "join_logs", "handle_result"}
        \cup RetentionHandled \cup RetryHandled

\* C4: with --no-monitor the run goes from the deploy request straight to the
\* background end: the threads are never started, no status poll, log query
\* or delete call is made, and an accepted deploy request exits with code 0.
C4_NoMonitorGoesToBackground ==
    no_monitor =>
       /\ pc \notin MonitoringPcs
       /\ ppc = "off" /\ tpc = "off"
       /\ nPolls = 0 /\ nLogQueries = 0 /\ retentionCalls = 0
       /\ monReturns = 0 /\ ~rollbackInvoked /\ deleteCalls = <<>>
       /\ (pc = "exited" /\ deployCalls = 1 /\ outcome # "DeployError")
             => (exit_code = 0 /\ outcome = "Background")

C4_Witness ==
    no_monitor /\ pc = "exited" /\ deployCalls = 1 /\ exit_code = 0

\* C5: monitor_and_tail returns exactly the value the status poller returned,
\* whatever the log tailer did meanwhile, and it returns once per invocation.
C5_MonitorReturnsPollerState ==
    /\ monReturns <= 1
    /\ pollerRet \in Terminal \cup {None}
    /\ (monReturns = 1 /\ pollerRet # None) => monResult = pollerRet
    /\ monReturns = 0 => monResult = None
    /\ (pc \in {"handle_result", "exited"} /\ ppc # "off") => monReturns = 1

C5_Witness ==
    /\ monReturns = 1 /\ pollerRet = "Failed" /\ monResult = "Failed"
    /\ nLogQueries >= 1 /\ Len(printed) = 2

\* C6: if the status thread ends without recording a result, monitor_and_tail
\* returns "Unknown".
C6_UnknownWhenNoResult ==
    (monReturns = 1 /\ ppc = "dead") => monResult = "Unknown"

\* C7 (as claimed): with a status source that never reports InService or
\* Failed, Timeout is returned at an elapsed time t with W <= t < W + I.
C7_TimeoutWithinOneInterval ==
    pollerRet = "Timeout" =>
       /\ retElapsed >= max_wait
       /\ retElapsed < max_wait + check_interval

\* C7 (amended): Timeout is never returned below W; it is returned at the
\* first budget check at or after W, at an elapsed time t with
\* W <= t < W + I + d, d being the time the last describe_endpoint call took.
C7_TimeoutBoundary ==
    pollerRet = "Timeout" =>
       /\ retElapsed >= max_wait
       /\ retElapsed < max_wait + check_interval + lastCallDur
       /\ nPolls = 0 => retElapsed = 0
       /\ lastReply.status \notin {"InService", "Failed"}

C7_Witness ==
    /\ pollerRet = "Timeout" /\ max_wait = 2 /\ check_interval = 1
    /\ nPolls = 2 /\ lastReply.status = "Creating" /\ retElapsed = 2

\* C8: the poller returns on the first poll that observes InService or
\* Failed; once it has returned a terminal value it issues no further status
\* query and its value never changes; it returns InService (Failed) only if
\* the last status query answered InService (Failed).
C8_TerminalMonotonicity ==
    [][/\ pollerRet # None =>
            /\ pollerRet' = pollerRet
            /\ nPolls' = nPolls
            /\ lastReply' = lastReply
            /\ ppc' \in {"recorded", "finished"}
       /\ lastReply'.status \in {"InService", "Failed"} => pollerRet' = lastReply'.status
       /\ pollerRet' \in {"InService", "Failed"} => lastReply'.status = pollerRet']_vars

C8_Witness ==
    /\ pollerRet = "InService" /\ nPolls = 3 /\ ppc = "finished"
    /\ last_status = "InService" /\ pc = "exited"

\* C9: "Could not find endpoint" is transient: after k such replies followed
\* by InService the poller returns InService; a not-found reply never yields
\* Error or Failed, the poller sleeps and polls again.
C9_NotFoundIsTransient ==
    /\ (nPolls >= 1 /\ priorNotFound /\ lastReply.status = "InService")
          => pollerRet = "InService"
    /\ pollerRet \in {"Error", "Failed"} => ~IsNotFound(lastReply)
    /\ (IsNotFound(lastReply) /\ ppc \notin {"dead", "calling"})
          => \/ ppc = "sleeping" /\ pollerRet = None
             \/ pollerRet = "Timeout"

C9_Witness ==
    /\ priorNotFound /\ nPolls = 3 /\ pollerRet = "InService"
    /\ monResult = "InService"

C11_UnrecognizedStatusIsTransient ==
    (/\ lastReply.kind = "ok"
     /\ lastReply.status \notin {"InService", "Failed", "Creating", "Updating"}
     /\ ppc # "dead")
       => \/ /\ ppc = "sleeping" /\ pollerRet = None
             /\ wakeAt = callStart + lastCallDur + check_interval
          \/ /\ ppc = "calling" /\ pollerRet = None
             /\ callStart = wakeAt
          \/ /\ pollerRet = "Timeout" /\ retElapsed >= max_wait
             /\ retElapsed = wakeAt - start_time

C11_Witness ==
    /\ lastReply.status = "RollingBack" /\ nPolls = 2 /\ pollerRet = "Timeout"
    /\ last_status = "RollingBack" /\ monResult = "Timeout"


\* ------------------------------------------------------------ tailer claims
ReturnedKeys == {k \in DOMAIN returned : returned[k] > 0}
PrintedKeys == {printed[i] : i \in 1..Len(printed)}
PrintedOnce == \A i, j \in 1..Len(printed) : printed[i] = printed[j] => i = j

\* C12: whatever sequence of batches the log source returns within a session,
\* every identity key (stream, timestamp, event id) returned at least once is
\* printed exactly once, however often it is returned; the seen set only
\* grows and equals the set of printed keys.
C12_DedupIdempotence ==
    [][/\ PrintedOnce'
       /\ PrintedKeys' = ReturnedKeys'
       /\ seen_events' = PrintedKeys'
       /\ seen_events \subseteq seen_events']_vars

\* three keys printed once each, one of them returned more than once and two
\* of them differing only in the event id
C12_Witness ==
    /\ Len(printed) = 3 /\ PrintedOnce
    /\ returned[<<"s1", 1, 1>>] >= 2
    /\ {<<"s1", 1, 1>>, <<"s1", 1, 2>>} \subseteq PrintedKeys


\* C13: the cursor last_timestamp never decreases in any step (an empty
\* batch, a batch of duplicates and a failed query included), and after a
\* batch is processed it lies above the timestamp of every event returned.
C13_CursorMonotonic ==
    [][/\ last_timestamp' >= last_timestamp
       /\ \A k \in ReturnedKeys' : last_timestamp' > k[2]]_vars

\* the newest event was printed first and an older one after it; the cursor
\* stayed above both, also through a failed query
C13_Witness ==
    /\ tpc = "sleep_error"
    /\ Len(printed) >= 2 /\ printed[1] = <<"s1", 3, 3>> /\ printed[2][2] = 1
    /\ last_timestamp = 4


\* C14: a failing log query (not-found or any other exception) leaves the
\* cursor, the seen set and the output unchanged and puts the tailer to
\* sleep; after the sleep it queries again unless the stop signal is set; the
\* tailer ends only on the stop signal, and the failure changes neither the
\* recorded status nor the result or position of the monitor.
C14_LogFailureAbsorbed ==
    [][/\ (tpc = "query" /\ tpc' \in {"sleep_not_found", "sleep_error"})
            => /\ last_timestamp' = last_timestamp
               /\ seen_events' = seen_events
               /\ printed' = printed
               /\ status_result' = status_result
               /\ monResult' = monResult /\ pc' = pc /\ exit_code' = exit_code
       /\ (tpc \in {"sleep_not_found", "sleep_error"} /\ tpc' # tpc)
            => tpc' = IF stop_event THEN "finished" ELSE "query"
       /\ (tpc # "finished" /\ tpc' = "finished") => stop_event
       /\ (tpc = "query" /\ tpc' # tpc) => tpc' \in TailerSleeps]_vars

\* a query failed with not-found after both events had been printed, and the
\* monitor returned the poller's InService
C14_Witness ==
    /\ tpc = "sleep_not_found" /\ Len(printed) = 2
    /\ monReturns = 1 /\ monResult = "InService" /\ pollerRet = "InService"


C16_MonitorDoesNotBlockOnTailer ==
    (ppc \in {"finished", "dead"}) ~> (monReturns = 1)

\* the monitor has returned the poller's result while the tailer is still
\* inside a query
C16_Witness ==
    /\ monReturns = 1 /\ monResult = "Failed" /\ ppc = "finished"
    /\ tpc = "query"


\* ---------------------------------------------------------- rollback claims
EndpointDeleted == Len(deleteCalls) >= 1 /\ deleteCalls[1].ok
ConfigDeleteFailed == Len(deleteCalls) = 2 /\ ~deleteCalls[2].ok

\* C17: when the endpoint deletion succeeds and the deletion of the endpoint
\* configuration fails, the run ends in RollbackFailed with the manual
\* cleanup instructions; "Rollback completed" and "Configuration deleted" are
\* printed only when both deletions succeeded.
C17_PartialFailureReported ==
    /\ (HandlerRan /\ EndpointDeleted /\ ConfigDeleteFailed)
          => /\ outcome = "RollbackFailed"
             /\ "Manual cleanup required" \in report
    /\ (report \cap {"Rollback completed", "Configuration deleted"} # {})
          => /\ Len(deleteCalls) = 2
             /\ \A i \in 1..2 : deleteCalls[i].ok

\* C18: no failure of delete_endpoint or delete_endpoint_config leaves
\* delete_endpoint as an exception: whenever rollback was invoked the handler
\* received True or False and the process exits with code 1; a failed
\* endpoint deletion gives False without a configuration deletion being
\* attempted, and then the manual cleanup commands are printed.
C18_DeleteEndpointNeverRaises ==
    (HandlerRan /\ rollbackInvoked)
       => /\ outcome \in {"RolledBack", "RollbackFailed"}
          /\ exit_code = 1
          /\ Len(deleteCalls) \in 1..2 /\ deleteCalls[1].op = "delete_endpoint"
          /\ ~deleteCalls[1].ok
                => /\ Len(deleteCalls) = 1
                   /\ outcome = "RollbackFailed"
                   /\ ROLLBACK_FAILED_REPORT \subseteq report
          /\ outcome = "RollbackFailed" => "Manual cleanup required" \in report

\* the endpoint deletion failed during the rollback of a Failed deployment
C18_Witness ==
    /\ HandlerRan /\ rollbackInvoked /\ monResult = "Failed"
    /\ Len(deleteCalls) = 1 /\ ~deleteCalls[1].ok
    /\ outcome = "RollbackFailed" /\ exit_code = 1

\* C19: whenever the process exits with a failure code after monitoring,
\* whatever the monitor result (Error and a missing result included), a
\* diagnosis and a remediation (manual deletion commands or troubleshooting
\* steps) have been printed.
C19_EveryFailureExitHasRemediation ==
    (HandlerRan /\ exit_code # 0)
       => /\ "Common Causes" \in report
          /\ report \cap {"Manual cleanup required", "Troubleshooting Steps"} # {}

\* C20: with auto-rollback enabled, a submitted and monitored deployment that
\* ends with any monitor result other than InService has delete_endpoint
\* invoked before the process exits.
C20_RollbackOnEveryNonSuccess ==
    (HandlerRan /\ rollback_on_failure /\ monResult # "InService")
       => /\ rollbackInvoked
          /\ Len(deleteCalls) >= 1 /\ deleteCalls[1].op = "delete_endpoint"


\* --------------------------------------------------------- retention claims
\* C21: put_retention_policy is attempted once before the threads start and
\* once after the joins; whichever way either call ends (success, not-found,
\* any other exception) the run goes on: after the first call both threads are
\* started, after the second the recorded status is returned, and neither
\* call changes the recorded status.
C21_RetentionIsBestEffort ==
    [][/\ (pc = "monitor_start" /\ pc' # pc)
            => /\ pc' \in RetentionHandled /\ retentionCalls' = 1
               /\ exit_code' = -1
       /\ (pc \in RetentionHandled /\ pc' # pc)
            => /\ pc' = "join_status" /\ ppc' = "begin" /\ tpc' = "delay"
               /\ retentionCalls' = 1
       /\ (pc = "join_logs" /\ pc' # pc)
            => /\ pc' \in RetryHandled /\ retentionCalls' = 2
               /\ status_result' = status_result /\ exit_code' = -1
       /\ (pc \in RetryHandled /\ pc' # pc)
            => /\ pc' = "handle_result" /\ monReturns' = 1
               /\ monResult' = status_result.status
               /\ retentionCalls' = 2
       /\ (retentionCalls' # retentionCalls)
            => (pc = "monitor_start" \/ pc = "join_logs")
       /\ retentionCalls' = IF monReturns' = 1 \/ pc' \in RetryHandled THEN 2
                            ELSE IF ppc' # "off" \/ pc' \in RetentionHandled THEN 1
                            ELSE 0]_vars

\* the retry after monitoring has failed; the poller had recorded InService
\* and the tailer had printed events
C21_Witness ==
    /\ pc = "retry_failed" /\ retentionCalls = 2
    /\ status_result.status = "InService" /\ Len(printed) >= 1


\* ------------------------------------------------------- end-to-end claims
\* C22: when a poll within the budget answers Failed (every earlier poll having
\* been transient), rollback is enabled and no deletion fails, the run ends
\* RolledBack with exit code 1 after exactly one delete_endpoint and then one
\* delete_endpoint_config, both for the endpoint's name.
C22_FailedThenRolledBack ==
    (/\ HandlerRan /\ rollback_on_failure
     /\ lastReply.kind = "ok" /\ lastReply.status = "Failed"
     /\ \A i \in 1..Len(deleteCalls) : deleteCalls[i].ok)
       => /\ pollerRet = "Failed" /\ monResult = "Failed"
          /\ retElapsed < max_wait + lastCallDur
          /\ outcome = "RolledBack" /\ exit_code = 1
          /\ deleteCalls = <<Call("delete_endpoint", endpoint_name, "ok"),
                             Call("delete_endpoint_config", endpoint_name, "ok")>>

\* Failed on poll 2, rollback enabled, both deletions succeeded
C22_Witness ==
    /\ HandlerRan /\ rollback_on_failure /\ nPolls = 2
    /\ lastReply.status = "Failed" /\ monResult = "Failed"
    /\ outcome = "RolledBack" /\ exit_code = 1
    /\ Len(deleteCalls) = 2 /\ deleteCalls[2].ok


\* C23: delete_endpoint issues the endpoint deletion first, for the name it
\* was given; the configuration deletion is issued only after it, only when
\* delete_config is set and the endpoint deletion did not fail, and with the
\* configuration name equal to the endpoint name; with delete_config false no
\* configuration deletion is issued.
C23_RollbackOrdering ==
    (delResult # NoResult) =>
       LET calls == delResult.calls
       IN /\ Len(calls) \in 1..2
          /\ calls[1].op = "delete_endpoint" /\ calls[1].name = delArgs.name
          /\ calls[1].ok <=> (delArgs.epOut = "ok")
          /\ Len(calls) = 2 <=> (delArgs.delete_config /\ delArgs.epOut = "ok")
          /\ Len(calls) = 2
                => /\ calls[2].op = "delete_endpoint_config"
                   /\ calls[2].name = delArgs.name
          /\ ~delResult.raised

\* delete_config set and the endpoint deletion failed: one call only
C23_Witness ==
    /\ delArgs.delete_config /\ delArgs.epOut = "ClientError"
    /\ delArgs.name = "ep-2"
    /\ Len(delResult.calls) = 1 /\ ~delResult.ret


\* ------------------------------------------------------- termination claims
\* C24: once the stop signal is set the tailer leaves its loop: a query in
\* progress is followed by its sleep and then by the exit, a sleep in progress
\* (the initial delay included) by the exit; no query starts after the loop
\* condition has seen the signal, and a tailer that has left stays out.
C24_TailerStopsAfterSignal ==
    /\ [][/\ (stop_event /\ tpc = "query" /\ tpc' # tpc) => tpc' \in TailerSleeps
          /\ (stop_event /\ tpc \in TailerSleeps \cup {"delay"} /\ tpc' # tpc)
               => tpc' = "finished"
          /\ tpc = "finished" => tpc' = "finished"
          /\ (tpc # "query" /\ tpc' = "query") => ~stop_event]_vars
    /\ (stop_event ~> (tpc = "finished"))

\* the poller timed out, the signal was set and the tailer, which had queried
\* the log source, has left its loop
C24_Witness ==
    /\ stop_event /\ tpc = "finished" /\ nLogQueries >= 1
    /\ pollerRet = "Timeout"


\* C25: whatever describe_endpoint answers (transient and unrecognized
\* statuses, not-found, other errors, in any mix), monitor_endpoint_status
\* returns one of InService, Failed, Timeout, Error, after a number of polls
\* bounded by the budget: poll k starts at least (k - 1) intervals after the
\* start and inside the budget.  (A status thread ended by an exception that
\* escapes the function returns nothing.)
C25_PollerTerminates ==
    /\ [](nPolls = 0 \/ (nPolls - 1) * check_interval < max_wait)
    /\ [](pollerRet \in Terminal \cup {None})
    /\ ((ppc = "begin") ~> (pollerRet \in Terminal \/ ppc = "dead"))

\* the budget was used up by transient answers: as many polls as the budget
\* allows, then Timeout
C25_Witness ==
    /\ pollerRet = "Timeout" /\ nPolls = max_wait /\ check_interval = 1
    /\ lastReply.kind = "ClientError" /\ ppc = "finished"


\* ------------------------------------------------------------ order claims
\* C26: the printed events are the returned batches, concatenated in query
\* order, without the repetitions of a key after its first occurrence: the
\* tailer never reorders events.
C26_PrintedInReturnOrder ==
    printed = firstReturned

\* three keys printed in the order of their first return, the newest first,
\* one of them returned again later
C26_Witness ==
    /\ Len(printed) = 3 /\ printed[1] = <<"s1", 3, 3>>
    /\ printed[2] = <<"s2", 1, 1>> /\ printed[3] = <<"s1", 1, 1>>
    /\ returned[<<"s1", 3, 3>>] >= 2


\* C27: every event the log source holds at or above the cursor at the moment
\* the stop signal is set has been printed when the tailer has left its loop.
\* The cursor never decreases and the source keeps its events, so the events
\* at or above the cursor the tailer leaves with are among those: they, at
\* least, have been printed.
C27_FlushedAtStop ==
    (tpc = "finished" /\ stop_event)
       => \A e \in Available(last_timestamp) : EventKey(e) \in PrintedKeys

\* C28: while the tailer keeps running, every event of the log source with a
\* timestamp at or above the initial cursor is eventually printed, also one
\* that shares its timestamp with a printed event and is returned only later.
C28_NoEventLost ==
    \A e \in TailEvents :
       (e.timestamp >= INITIAL_CURSOR) => <>(EventKey(e) \in PrintedKeys)


\* C29: a poll that returns a status prints a status line exactly when that
\* status differs from the one remembered from the previous successful poll
\* (nothing is remembered before the first); a repeated status prints no
\* status line; a poll that raises prints none and leaves the remembered
\* status; a failure reason in the response is printed with the status Failed.
StatusLineOf(lines) == {i \in 1..Len(lines) : lines[i].line = "status"}

C29_StatusLineOnChange ==
    [][(ppc = "calling" /\ ppc' \in {"recorded", "sleeping"}) =>
         LET r == lastReply'
             emitted == StatusLineOf(statusOut') # {}
         IN /\ Cardinality(StatusLineOf(statusOut')) <= 1
            /\ r.kind = "ok" =>
                  /\ emitted <=> (r.status # last_status)
                  /\ emitted => statusOut'[1] = [line |-> "status", text |-> r.status]
                  /\ last_status' = r.status
            /\ r.kind # "ok" => (~emitted /\ last_status' = last_status)
            /\ (r.kind = "ok" /\ r.status = "Failed" /\ r.reason # NoReason) =>
                  /\ emitted
                  /\ \E i \in 1..Len(statusOut') : statusOut'[i].text = r.reason]_vars

\* the second of two polls that returned Creating printed no status line
C29_Witness ==
    /\ nPolls >= 2 /\ ppc = "sleeping"
    /\ lastReply.kind = "ok" /\ lastReply.status = "Creating"
    /\ last_status = "Creating" /\ statusOut = <<>>


\* the main thread is past status_thread.join()
Joined ==
    \/ pc \in {"join_logs", "handle_result"} \cup RetryHandled
    \/ pc = "exited" /\ monReturns >= 1

\* C30 (as stated): if the stop signal is set the shared result holds the
\* poller's terminal status; and whenever the monitor has joined the status
\* thread, or the tailer has observed the signal, the recorded result is a
\* terminal state and not empty.
C30_ResultRecordedBeforeStop ==
    /\ stop_event => status_result["status"] \in Terminal
    /\ (Joined \/ tpc = "finished") => status_result["status"] \in Terminal

\* C30 (amended): the signal is set only after the terminal status is stored,
\* so the tailer that observed it, and the monitor that joined a status thread
\* which returned from the poller, find a terminal status; a status thread
\* ended by an escaping exception is joined with the result still None and
\* the signal not set.
C30_ResultRecordedUnlessThreadDied ==
    /\ stop_event => (status_result["status"] \in Terminal /\ ppc = "finished")
    /\ tpc = "finished" => (stop_event /\ status_result["status"] \in Terminal)
    /\ Joined => ppc \in {"finished", "dead"}
    /\ (Joined /\ ppc = "finished") =>
          (stop_event /\ status_result["status"] = pollerRet /\ pollerRet \in Terminal)
    /\ (Joined /\ ppc = "dead") =>
          (~stop_event /\ status_result["status"] = None /\ tpc # "finished")

\* the monitor has joined the status thread and the tailer has left its loop
\* on the signal, with the status Failed recorded
C30_Witness ==
    /\ pc = "join_logs" /\ ppc = "finished" /\ tpc = "finished"
    /\ stop_event /\ status_result["status"] = "Failed"


DeleteCount(op) == Cardinality({i \in 1..Len(deleteCalls) : deleteCalls[i].op = op})

\* C32: a delete_endpoint or delete_endpoint_config call is issued only after
\* the deploy request was submitted and monitoring has returned its result,
\* with the status thread ended, never while the poller polls, and each at
\* most once per run.
C32_RollbackOnceAfterMonitoring ==
    /\ (deleteCalls # <<>> \/ rollbackInvoked) =>
          /\ deployCalls = 1
          /\ monReturns = 1
          /\ ppc \in {"finished", "dead"}
          /\ pc = "exited"
    /\ DeleteCount("delete_endpoint") <= 1
    /\ DeleteCount("delete_endpoint_config") <= 1
    /\ deleteCalls # <<>> => deleteCalls[1].op = "delete_endpoint"

\* the run rolled back after a timeout: both deletions issued once
C32_Witness ==
    /\ DeleteCount("delete_endpoint") = 1 /\ DeleteCount("delete_endpoint_config") = 1
    /\ monResult = "Timeout" /\ ppc = "finished" /\ nPolls >= 1 /\ pc = "exited"


\* ceil(W / I) for W >= 0, I >= 1
Ceil(W, I) == (W + I - 1) \div I

\* every describe_endpoint call of the run took no time: the elapsed time at
\* the return is the sleeps alone
InstantCalls == retElapsed = nPolls * check_interval

\* C33: when the status calls take no time, a run that ends in Timeout has
\* issued exactly ceil(W / I) describe_endpoint calls; with W = 0 it returns
\* Timeout without a call; and every call starts inside the budget, the
\* budget being tested before a call only.
C33_PollCountAtTimeout ==
    /\ (pollerRet = "Timeout" /\ InstantCalls) =>
          nPolls = Ceil(max_wait, check_interval)
    /\ max_wait = 0 =>
          /\ nPolls = 0
          /\ ppc \in {"recorded", "finished"} => pollerRet = "Timeout"
    /\ nPolls >= 1 => callStart - start_time < max_wait

\* W = 3, I = 2: polls at 0 and 2, Timeout at 4 after ceil(3/2) = 2 calls
C33_Witness ==
    /\ pollerRet = "Timeout" /\ InstantCalls
    /\ max_wait = 3 /\ check_interval = 2 /\ nPolls = 2 /\ retElapsed = 4


\* C34: at every point the cursor is above the timestamp of every event
\* printed so far, and against a log source that honours startTime every
\* printed event has a timestamp at or above the initial cursor, which is the
\* start time of tail_logs minus 10 minutes; the cursor itself never lies
\* below it.
C34_CursorAbovePrinted ==
    /\ \A i \in 1..Len(printed) :
          /\ last_timestamp > printed[i][2]
          /\ printed[i][2] >= TAILER_START - LOOKBACK_MS
    /\ last_timestamp >= TAILER_START - LOOKBACK_MS
    /\ tpc = "delay" => printed = <<>>

\* events printed over two queries, the older stored event never among them
C34_Witness ==
    /\ Len(printed) = 2 /\ printed[2] = <<"s1", 3, 3>> /\ last_timestamp = 4
    /\ OLD_EVENT.timestamp < INITIAL_CURSOR /\ EventKey(OLD_EVENT) \notin PrintedKeys


\* C35: the two threads write disjoint state.  The dedup set and the cursor
\* change only in steps of the logs thread, the recorded status and the stop
\* signal only in steps of the status thread; a step of the logs thread leaves
\* every variable of the status thread and the shared result and signal as
\* they are, and a step of the status thread leaves every variable of the
\* logs thread as it is.
C35_DisjointWrites ==
    [][/\ (last_timestamp' # last_timestamp \/ seen_events' # seen_events) =>
             (tpc \in {"delay", "query"} /\ tpc' # tpc)
       /\ (status_result' # status_result \/ stop_event' # stop_event) =>
             (ppc \in {"begin", "calling", "sleeping", "recorded"} /\ ppc' # ppc)
       /\ (tpc # "off" /\ tpc' # tpc) => UNCHANGED <<pollerVars, sharedVars>>
       /\ (ppc # "off" /\ ppc' # ppc) => UNCHANGED tailerVars]_vars

\* both threads have written their own state in one session
C35_Witness ==
    /\ stop_event /\ status_result["status"] = "Failed"
    /\ seen_events # {} /\ last_timestamp > INITIAL_CURSOR /\ tpc = "finished"


\* ------------------------------------------- endpoint_operations claims
\* a step of the loop of wait_for_endpoint
WaitLoopStep == wfe.pc = "loop" /\ wfe' # wfe

\* C36: wait_for_endpoint with a target status other than Failed: a poll
\* that observes Failed ends the call with an exception that reports the
\* failure reason, whatever its text; a poll that observes the target status
\* returns it; endpoint-not-found is retried until max_wait, and then one
\* more status check decides what is returned.
C36_FailedAlwaysRaises ==
    /\ [][WaitLoopStep =>
            LET r == wfe'.last
            IN /\ (wfe.target_status # "Failed" /\ r.kind = "ok" /\ r.status = "Failed") =>
                     /\ wfe'.pc = "done"
                     /\ wfe'.out.kind = "raise"
                     /\ wfe'.info.kind = "ok" =>
                           wfe'.out.msg = FailedMsg(get_endpoint_info(wfe'.info).failure_reason)
               /\ (r.kind = "ok" /\ r.status = wfe.target_status) =>
                     /\ wfe'.pc = "done"
                     /\ wfe'.out = [kind |-> "return", status |-> r.status, msg |-> <<>>]
               /\ r.kind = "not_found" =>
                     /\ wfe'.out = NoOut
                     /\ wfe'.pc = IF wfe'.elapsed < wfe.max_wait THEN "loop" ELSE "final"]_vars
    /\ [][(wfe.pc = "final" /\ wfe' # wfe) =>
            /\ wfe'.pc = "done"
            /\ wfe'.last.kind = "ok" =>
                  wfe'.out = [kind |-> "return", status |-> wfe'.last.status, msg |-> <<>>]]_vars


\* ------------------------------------------- sagemaker_endpoint claims
\* the call failed with the 'Could not find endpoint' validation error
FailedNotFound(c) ==
    /\ c.err.kind = "ClientError" /\ c.err.code = "ValidationException"
    /\ MsgContains(c.err.msg, "Could not find endpoint")

\* C37: create_or_update_endpoint issues update_endpoint only right after a
\* describe_endpoint that reported InService; while the status is Creating,
\* Updating or RollingBack it keeps waiting, and on any other status it
\* raises without having issued update_endpoint or create_endpoint; it
\* issues create_endpoint only right after a call that failed with the
\* 'Could not find endpoint' validation error; and never after an
\* update_endpoint that succeeded.
C37_UpdateAfterInService ==
    LET calls == cou.calls
        n == Len(calls)
    IN /\ \A i \in 1..n : calls[i].op = "update_endpoint" =>
             /\ i >= 3
             /\ calls[i - 1] = CouCall("describe_endpoint", "InService", NoErr)
             /\ \A j \in 2..(i - 2) : calls[j].status \in WaitingStatuses
       /\ \A i \in 1..n : calls[i].op = "create_endpoint" =>
             /\ i >= 2
             /\ FailedNotFound(calls[i - 1])
             /\ \A j \in 1..(i - 1) :
                   ~(calls[j].op = "update_endpoint" /\ calls[j].err = NoErr)
       /\ (n >= 2 /\ calls[n].op = "describe_endpoint" /\ calls[n].err = NoErr) =>
             /\ calls[n].status \in WaitingStatuses => (cou.pc = "wait" /\ cou.out = NoOut)
             /\ calls[n].status = "InService" => (cou.pc = "update" /\ cou.out = NoOut)
             /\ calls[n].status \notin WaitingStatuses \cup {"InService"} =>
                   /\ cou.pc = "done" /\ cou.out.kind = "raise"
                   /\ \A j \in 1..n : calls[j].op = "describe_endpoint"
       /\ cou.out.kind = "return" =>
             /\ calls[n].op \in {"update_endpoint", "create_endpoint"}
             /\ calls[n].err = NoErr

\* the endpoint was waited for, reported InService and then disappeared:
\* update_endpoint failed with the not-found error and create_endpoint
\* succeeded
C37_Witness ==
    /\ cou.pc = "done" /\ cou.out.kind = "return" /\ Len(cou.calls) = 5
    /\ cou.calls[2].status = "Updating"
    /\ cou.calls[3].status = "InService"
    /\ cou.calls[4].op = "update_endpoint" /\ FailedNotFound(cou.calls[4])
    /\ cou.calls[5] = CouCall("create_endpoint", None, NoErr)

====
